---- MODULE Spec2Model ----
(***************************************************************************)
(* web-drumkit: the trigger engine (audio/sampler.ts) and the binding      *)
(* resolver (components/MidiSampler.tsx) as state machines.                *)
(*                                                                         *)
(* JavaScript runs every callback to completion and resumes awaiting       *)
(* callers in the order in which they started to wait.  An action of this  *)
(* module is therefore one external event (a call, a physical input, the   *)
(* settling of a backend promise) together with every continuation that    *)
(* event makes runnable, in first-in first-out order.  Between two actions *)
(* an asynchronous call is parked on a backend promise or it is finished.  *)
(***************************************************************************)
EXTENDS Integers, Sequences, FiniteSets, TLC

VARIABLES
  \* ---- audio/sampler.ts module state
  ctxState,          \* Tone.getContext().state: "suspended" | "running"
  loaded,            \* the memoized load promise: "null" | "pending" | "ready" | "failed"
  sampler,           \* TRUE once `sampler = new Tone.Sampler(..)` was assigned
  useSynthFallback,  \* let useSynthFallback = false
  synthBus,          \* TRUE once ensureSynth() built the synth bank
  hiHatOpenLevel,    \* 0..127, in units of 1/127
  calls,             \* asynchronous calls parked on a backend promise, oldest first
  nCalls,            \* number of triggerPad calls made so far (their ids)
  \* ---- the audio backend (external collaborator)
  ringing,           \* hi-hat group voices that sound: [pad, voice]
  scheduled,         \* voices with a release scheduled for later
  lastRender,        \* the backend commands of the latest rendered hit
  prevRender,        \* ... and of the one before it
  \* ---- components/MidiSampler.tsx: audio state
  audioReady, loading, error, engine,
  \* ---- observation of prepareAudio (not program state)
  prepareReturned,   \* what the latest prepareAudio call to return returned, and
                     \* the state of the audio context at that moment
  \* ---- components/MidiSampler.tsx: the binding resolver
  selectedId,        \* the MIDI input listened to: {} (null) or {id}
  editMode,
  modalForMidi,      \* target pad of the open modal: {} or {midi}
  listenKeyForMidi, listenMidiForMidi, listenCcForMidi,   \* {} or {target}
  conflictKey,       \* {} or {key}
  conflictMidi,      \* {} or {[note, ownerLabel]}
  conflictCc,        \* {} or {[cc, ownerLabel]}
  bindings,          \* PadBindings: target midi -> [keys, midis, ccs]
  stored,            \* localStorage['drum_bindings_v1']: {} or {text}
  keyListeners,      \* the armed `once` keydown listeners, with what they closed over
  ccDownRef,         \* the controllers whose ccDownRef entry is true
  legacyStored,      \* localStorage['drum_keymap_v1']: {} or {text}; only read
  \* ---- observation of the loads (not program state)
  migrations,        \* the loads so far whose initializer returned the migrated table
  \* ---- observation of the physical input (not program state)
  ccHeld,            \* the controllers whose latest received value was >= 64
  \* ---- audio/metronome.ts module state
  initialized,       \* let initialized = false
  beatsPerBar,       \* 1..12
  bpm,               \* beats per minute, an integer
  isRunning,
  currentBeat, currentBar,
  accents,           \* boolean[], one per beat
  volumes,           \* number[], one per beat, in tenths (10 is 1.0)
  loopStarted,       \* the Tone.Loop and the Transport are started
  \* ---- observation of the ticks (not program state)
  lastTick,          \* what the latest tick played and told the subscriber
  nTicks,            \* ticks since the latest start() that ran
  resized,           \* setBeatsPerBar was called since that start()
  lastCall,          \* the latest of start() and stop() to be called
  oddToggles,        \* an odd number of toggle() calls were made so far
  \* ---- the piano page (PianoPage.tsx, piano.ts)
  audioEnabled,      \* the page's audioEnabled state
  transpose,         \* semitones from C
  pressed,           \* the physical keys whose pressed flag is true
  activeNotes,       \* activeNotesRef: physical key -> the note it started
  startInFlight,     \* startInFlight holds the promise of engine.start()
  started,           \* the engine's started flag
  presses,           \* press() calls waiting for the promise of engine.start()
  \* ---- observation of the piano (not program state)
  keysDown,          \* the keys the player is holding
  sounding,          \* note -> attacks of the synth not yet released
  \* ---- the volume bar of one beat (BeatVolumeBar.tsx)
  dragging,          \* dragging.current
  debounceTimer,     \* the value the pending debounce timer will commit, if any
  \* ---- observation of the bar (not program state)
  lastChange,        \* the value of the latest onChange call, if any
  atRelease          \* the value at the pointer-up of the latest drag, once it ended

audioVars == <<ctxState, loaded, sampler, useSynthFallback, synthBus, hiHatOpenLevel,
               calls, nCalls, ringing, scheduled, lastRender, prevRender,
               audioReady, loading, error, engine, prepareReturned>>

bindVars == <<selectedId, editMode, modalForMidi, listenKeyForMidi, listenMidiForMidi,
              listenCcForMidi, conflictKey, conflictMidi, conflictCc, bindings, stored,
              keyListeners, ccDownRef, ccHeld, legacyStored, migrations>>

metroVars == <<initialized, beatsPerBar, bpm, isRunning, currentBeat, currentBar,
               accents, volumes, loopStarted, lastTick, nTicks, resized, lastCall, oddToggles>>

pianoVars == <<audioEnabled, transpose, pressed, activeNotes, startInFlight, started,
               presses, keysDown, sounding>>

barVars == <<dragging, debounceTimer, lastChange, atRelease>>

vars == <<audioVars, bindVars, metroVars, pianoVars, barVars>>

\* ------------------------------------------------------------------ bounds
\* triggerPad calls made in one behaviour
MaxTriggers == 2
\* asynchronous calls parked at the same time
MaxCalls == 2
\* `once` keydown listeners armed at the same time
MaxListeners == 1

\* ------------------------------------------------------------ voice catalog
HiHatPads == {"HiHatClosed", "HiHatOpen", "HiHatPedal"}

PAD_TO_MIDI ==
  [Kick |-> 36, Snare |-> 38, Stick |-> 37, HiHatClosed |-> 42, HiHatPedal |-> 44,
   HiHatOpen |-> 46, Crash |-> 49, Ride |-> 51, TomHigh |-> 48, TomMid |-> 45,
   TomFloor |-> 41]

DrumPad == DOMAIN PAD_TO_MIDI

midiNoteToPad(noteNumber) ==
  IF \E p \in DrumPad : PAD_TO_MIDI[p] = noteNumber
    THEN CHOOSE p \in DrumPad : PAD_TO_MIDI[p] = noteNumber
    ELSE "null"

padToNoteName(pad) ==
  CASE pad = "Crash" -> "C#3"
    [] pad = "Kick" -> "C2"
    [] pad = "Snare" -> "D2"
    [] pad = "Stick" -> "D#2"
    [] pad = "HiHatClosed" -> "F#2"
    [] pad = "HiHatOpen" -> "A#2"
    [] pad = "Ride" -> "D#3"
    [] pad = "TomHigh" -> "C3"
    [] pad = "TomMid" -> "A2"
    [] pad = "TomFloor" -> "F2"
    [] OTHER -> "undefined"

padToVoice(pad) ==
  CASE pad = "Kick" -> "kick"
    [] pad = "Snare" -> "snare"
    [] pad = "HiHatOpen" -> "hhOpen"
    [] pad = "HiHatClosed" -> "hhClosed"
    [] pad = "HiHatPedal" -> "hhPedal"
    [] pad = "Crash" -> "crash"
    [] pad = "Ride" -> "ride"
    [] pad = "TomHigh" -> "tomHigh"
    [] pad = "TomMid" -> "tomMid"
    [] pad = "TomFloor" -> "tomFloor"
    [] pad = "Stick" -> "snare"
    [] OTHER -> "snare"

\* the synth of the bank that plays a voice
VoiceSynth(voice) ==
  CASE voice \in {"hhOpen", "hhClosed", "hhPedal"} -> "hat"
    [] voice \in {"crash", "ride"} -> "cym"
    [] OTHER -> voice

Clamp(lo, hi, x) == IF x < lo THEN lo ELSE IF x > hi THEN hi ELSE x

\* vel = max(0, min(1, velocity / 127)), in units of 1/127
NormVel(velocity) == Clamp(0, 127, velocity)

\* the gain handed to the backend, in units of 1/1270
SampleGain(velocity) == 10 * NormVel(velocity)

SynthGain(voice, velocity) ==
  CASE voice = "hhOpen" -> 635 + 5 * NormVel(velocity)
    [] voice \in {"hhClosed", "hhPedal", "crash", "ride"} -> 508 + 6 * NormVel(velocity)
    [] OTHER -> 10 * NormVel(velocity)

\* ------------------------------------------------ rendering one hit (backend)
\* The backend calls of one triggerPad that may throw: the two releases of
\* chokeHiHatAll, the attack, and the release scheduled after the attack.
FailSites == {"choke1", "choke2", "attack", "release"}

Cmd(op, voice, at, gain, ok) == [op |-> op, voice |-> voice, at |-> at, gain |-> gain, ok |-> ok]

IsHiHatPad(pad) == pad = "HiHatClosed" \/ pad = "HiHatOpen" \/ pad = "HiHatPedal"

\* chokeHiHatAll(): the releases it issues; a throwing release ends the try block
chokeHiHatAll(fallback, hasSampler, fails) ==
  IF fallback
    THEN << Cmd("release", "hat", "now", 0, "choke1" \notin fails) >>
    ELSE IF ~hasSampler THEN << >>
    ELSE IF "choke1" \in fails
      THEN << Cmd("release", "A#2", "now", 0, FALSE) >>
      ELSE << Cmd("release", "A#2", "now", 0, TRUE),
              Cmd("release", "F#2", "now", 0, "choke2" \notin fails) >>

\* sampler.triggerAttack(note) followed by sampler.triggerRelease(note, now + t)
AttackThenRelease(note, gain, fails) ==
  IF "attack" \in fails
    THEN << Cmd("attack", note, "now", gain, FALSE) >>
    ELSE << Cmd("attack", note, "now", gain, TRUE),
            Cmd("release", note, "later", 0, "release" \notin fails) >>

\* a release scheduled after the attack of every pad
SampledHitAlwaysReleases(pad, velocity, fails) ==
  AttackThenRelease(IF pad = "HiHatPedal" THEN "G#2" ELSE padToNoteName(pad),
                    SampleGain(velocity), fails)

\* the samples branch of triggerPad, after the choke
SampledHit(pad, velocity, fails) ==
  CASE pad = "HiHatClosed" -> AttackThenRelease("F#2", SampleGain(velocity), fails)
    [] pad = "HiHatOpen" ->
         << Cmd("attack", "A#2", "now", SampleGain(velocity), "attack" \notin fails) >>
    [] pad = "HiHatPedal" -> AttackThenRelease("G#2", SampleGain(velocity), fails)
    [] OTHER ->
         << Cmd("attack", padToNoteName(pad), "now", SampleGain(velocity),
                "attack" \notin fails) >>

\* the synth branch of triggerPad: one triggerAttackRelease on the voice's synth
SynthHit(pad, velocity, fails) ==
  << Cmd("attackRelease", VoiceSynth(padToVoice(pad)), "now",
         SynthGain(padToVoice(pad), velocity), "attack" \notin fails) >>

\* the choke issued after the hit instead of before it
RenderCmdsChokeLast(pad, velocity, fallback, hasSampler, fails) ==
  (IF fallback THEN SynthHit(pad, velocity, fails)
               ELSE SampledHit(pad, velocity, fails))
    \o (IF IsHiHatPad(pad) THEN chokeHiHatAll(fallback, hasSampler, fails) ELSE << >>)

\* the synchronous tail of triggerPad: choke, then the hit
RenderCmds(pad, velocity, fallback, hasSampler, fails) ==
  (IF IsHiHatPad(pad) THEN chokeHiHatAll(fallback, hasSampler, fails) ELSE << >>)
    \o (IF fallback THEN SynthHit(pad, velocity, fails)
                    ELSE SampledHit(pad, velocity, fails))

\* triggerPad rejects when a call outside a try block throws
Threw(cmds) ==
  \E i \in 1..Len(cmds) :
     ~cmds[i].ok /\ ~(cmds[i].op = "release" /\ cmds[i].at = "now")

\* The backend's view of the hi-hat group: what one command does to the
\* sounding voices and to the releases still to come.
BackendApply(snd, cmd, pad) ==
  IF ~cmd.ok \/ ~IsHiHatPad(pad) THEN snd
  ELSE IF cmd.op = "release" /\ cmd.at = "now"
    THEN [ringing |-> {r \in snd.ringing : r.voice # cmd.voice},
          scheduled |-> snd.scheduled \ {cmd.voice}]
  ELSE IF cmd.op = "release"
    THEN [snd EXCEPT !.scheduled = @ \cup {cmd.voice}]
  ELSE IF cmd.op = "attack"
    THEN [snd EXCEPT !.ringing = @ \cup {[pad |-> pad, voice |-> cmd.voice]}]
  ELSE \* attackRelease on a monophonic synth
    [ringing |-> {r \in snd.ringing : r.voice # cmd.voice}
                   \cup {[pad |-> pad, voice |-> cmd.voice]},
     scheduled |-> snd.scheduled \cup {cmd.voice}]

RECURSIVE BackendRun(_, _, _)
BackendRun(snd, cmds, pad) ==
  IF cmds = << >> THEN snd
  ELSE BackendRun(BackendApply(snd, Head(cmds), pad), Tail(cmds), pad)

NoRender == [id |-> 0, pad |-> "null", velocity |-> 0, mode |-> "none",
             cmds |-> << >>, threw |-> FALSE, before |-> {}]

AllOk(cmds) == \A i \in 1..Len(cmds) : cmds[i].ok

\* the voices a hit attacked
Attacked(cmds) ==
  {cmds[i].voice : i \in {j \in 1..Len(cmds) : cmds[j].op \in {"attack", "attackRelease"}}}

\* what is kept of the hit rendered before the latest one
NoPrev == [id |-> 0, pad |-> "null", mode |-> "none", ok |-> TRUE, attacked |-> {}]
Summary(r) == [id |-> r.id, pad |-> r.pad, mode |-> r.mode, ok |-> AllOk(r.cmds),
               attacked |-> Attacked(r.cmds)]

\* ------------------------------------------------- binding resolver: values
PAD_LABELS ==
  [Kick |-> "Kick", Snare |-> "Snare", Stick |-> "Stick", HiHatClosed |-> "HH Close",
   HiHatPedal |-> "HH Pedal", HiHatOpen |-> "HH Open", Crash |-> "Crash",
   Ride |-> "Ride", TomHigh |-> "Tom H", TomMid |-> "Tom M", TomFloor |-> "Tom F"]

\* defaultMidiSetRef.current: the default note numbers of all pads
DefaultMidiSet == {PAD_TO_MIDI[p] : p \in DrumPad}

\* midiToLabel[target] || 'another sound'
midiToLabel(n) ==
  IF n \in DefaultMidiSet THEN PAD_LABELS[midiNoteToPad(n)] ELSE "another sound"

CC_TRIGGER_THRESHOLD == 64
FootController == 4

EmptyTable == [m \in {} |-> 0]
EmptyBinding == [keys |-> << >>, midis |-> << >>, ccs |-> << >>]

normalizeBinding(tbl, t) == IF t \in DOMAIN tbl THEN tbl[t] ELSE EmptyBinding

includes(arr, x) == \E i \in 1..Len(arr) : arr[i] = x

\* a filter that keeps nothing
filterOutAll(arr, x) == << >>

\* arr.filter(y => y !== x)
filterOut(arr, x) == SelectSeq(arr, LAMBDA y : y # x)

\* { ...tbl, [t]: b }
SetEntry(tbl, t, b) == [m \in DOMAIN tbl \cup {t} |-> IF m = t THEN b ELSE tbl[m]]

\* Object.entries(tbl) visits integer keys in ascending order
RECURSIVE Ascending(_)
Ascending(S) ==
  IF S = {} THEN << >>
  ELSE LET m == CHOOSE x \in S : \A y \in S : x <= y
       IN << m >> \o Ascending(S \ {m})

\* a writer that keeps the keys of every entry and drops its notes and controllers
JSONStringifyKeysOnly(tbl) ==
  LET ks == Ascending(DOMAIN tbl)
  IN [i \in 1..Len(ks) |->
        [m |-> ToString(ks[i]),
         b |-> [keys |-> tbl[ks[i]].keys, midis |-> << >>, ccs |-> << >>]]]

\* JSON.stringify(tbl): the entries in key order, each key as its decimal text
JSONStringify(tbl) ==
  LET ks == Ascending(DOMAIN tbl)
  IN [i \in 1..Len(ks) |-> [m |-> ToString(ks[i]), b |-> tbl[ks[i]]]]

\* a conversion that reads every key as 0
NumberZero(txt) == 0

\* Number(m) of a decimal key
Number(txt) == CHOOSE n \in 0..127 : ToString(n) = txt

\* normalizeBinding(b) of a parsed entry: a missing list becomes []
normalizeParsed(b) ==
  [keys |-> IF "keys" \in DOMAIN b THEN b.keys ELSE << >>,
   midis |-> IF "midis" \in DOMAIN b THEN b.midis ELSE << >>,
   ccs |-> IF "ccs" \in DOMAIN b THEN b.ccs ELSE << >>]

\* the useState initializer of bindings: the stored record parsed, every
\* entry normalized under its numeric key; no record gives the empty table
LoadBindings(raw) ==
  IF raw = {} THEN EmptyTable
  ELSE LET text == CHOOSE x \in raw : TRUE
       IN [m \in {Number(text[i].m) : i \in 1..Len(text)} |->
             normalizeParsed(text[CHOOSE i \in 1..Len(text) : Number(text[i].m) = m].b)]

\* e.key.toLowerCase()
ToLowerCase(k) == IF k = "A" THEN "a" ELSE IF k = "S" THEN "s" ELSE k

\* the first other target (in key order) that holds x in its `field` array
OwnersOf(tbl, t, field, x) == {m \in DOMAIN tbl : m # t /\ includes(tbl[m][field], x)}
FirstOf(S) == CHOOSE x \in S : \A y \in S : x <= y

\* a key capture that never tests for another owner
KeyConflictNone(tbl, t, k) == FALSE

\* the key capture's conflict test, on the table the listener closed over
KeyConflict(tbl, t, k) ==
  \E m \in DOMAIN tbl : m # t /\ includes(tbl[m].keys, k)

\* a note capture that tests the extra notes only, not the pads' default notes
MidiOwnerLabelExtrasOnly(tbl, t, note) ==
  IF OwnersOf(tbl, t, "midis", note) # {}
    THEN midiToLabel(FirstOf(OwnersOf(tbl, t, "midis", note)))
    ELSE ""

\* a controller capture that never tests for another owner
CcOwnerLabelNone(tbl, t, cc) == ""

\* the note capture's ownerLabel: an extra note of another target, else another
\* pad's default note; "" stands for null
MidiOwnerLabel(tbl, t, note) ==
  IF OwnersOf(tbl, t, "midis", note) # {}
    THEN midiToLabel(FirstOf(OwnersOf(tbl, t, "midis", note)))
  ELSE IF note \in DefaultMidiSet /\ note # t THEN midiToLabel(note)
  ELSE ""

CcOwnerLabel(tbl, t, cc) ==
  IF OwnersOf(tbl, t, "ccs", cc) # {}
    THEN midiToLabel(FirstOf(OwnersOf(tbl, t, "ccs", cc)))
    ELSE ""

\* an updater that also takes the target's own number
AddMidiOwnDefault(prev, t, note) ==
  LET cur == normalizeBinding(prev, t)
  IN IF ~includes(cur.midis, note)
       THEN SetEntry(prev, t, [cur EXCEPT !.midis = Append(@, note)])
       ELSE prev

\* the updater handed to setBindings by the note capture
AddMidi(prev, t, note) ==
  LET cur == normalizeBinding(prev, t)
  IN IF note = t THEN prev
     ELSE IF ~includes(cur.midis, note)
       THEN SetEntry(prev, t, [cur EXCEPT !.midis = Append(@, note)])
       ELSE prev

AddCc(prev, t, cc) ==
  LET cur == normalizeBinding(prev, t)
  IN IF ~includes(cur.ccs, cc)
       THEN SetEntry(prev, t, [cur EXCEPT !.ccs = Append(@, cc)])
       ELSE prev

\* a resolution that looks at the extra notes first
getResolvedExtrasFirst(tbl, incoming) ==
  IF \E m \in DOMAIN tbl : includes(tbl[m].midis, incoming)
    THEN FirstOf({m \in DOMAIN tbl : includes(tbl[m].midis, incoming)})
    ELSE incoming

\* getResolvedIncomingMidi(incoming)
getResolvedIncomingMidi(tbl, incoming) ==
  IF incoming \in DefaultMidiSet THEN incoming
  ELSE IF \E m \in DOMAIN tbl : includes(tbl[m].midis, incoming)
    THEN FirstOf({m \in DOMAIN tbl : includes(tbl[m].midis, incoming)})
    ELSE incoming

\* getResolvedIncomingCc(incoming): {} stands for null
getResolvedIncomingCc(tbl, incoming) ==
  IF \E m \in DOMAIN tbl : includes(tbl[m].ccs, incoming)
    THEN {FirstOf({m \in DOMAIN tbl : includes(tbl[m].ccs, incoming)})}
    ELSE {}

\* the MIDI effect runs again when one of its dependencies changed, and
\* starts by clearing ccDownRef
EffectCcDown(cur, newSel, newMidi, newCc) ==
  IF <<newSel, newMidi, newCc>> # <<selectedId, listenMidiForMidi, listenCcForMidi>>
    THEN {} ELSE cur

\* the inputs of the binding resolver
Targets == {36, 42}
KeyNames == {"a", "A"}
NoteNumbers == {36, 60}
NoteVelocities == {0, 100}
CcNumbers == {4, 20}
CcValues == {0, 40, 70}
Devices == {"", "in1"}

InitBindings ==
  /\ selectedId = {}
  /\ editMode = FALSE
  /\ modalForMidi = {}
  /\ listenKeyForMidi = {}
  /\ listenMidiForMidi = {}
  /\ listenCcForMidi = {}
  /\ conflictKey = {}
  /\ conflictMidi = {}
  /\ conflictCc = {}
  /\ bindings = EmptyTable
  /\ stored = {}
  /\ keyListeners = << >>
  /\ ccDownRef = {}
  /\ ccHeld = {}
  /\ legacyStored = {}
  /\ migrations = 0

\* ----------------------------------------------------- audio/metronome.ts
\* ticks of one start()
MaxTicks == 8

Min(a, b) == IF a < b THEN a ELSE b
Max(a, b) == IF a > b THEN a ELSE b

\* new Array(n).fill(v)
Fill(n, v) == [i \in 1..n |-> v]

\* a resize that keeps nothing
ResizeAllDefault(arr, n, dflt) == Fill(n, dflt)

\* the resize of setBeatsPerBar: a filled array of the new length, then the
\* copy loop over i < Math.min(arr.length, n); index i of the code is i + 1
Resize(arr, n, dflt) ==
  [i \in 1..n |-> IF i <= Min(Len(arr), n) THEN arr[i] ELSE dflt]

\* Math.round of a number given in halves (241 is 120.5): halves round up
Round(h) == (h + 1) \div 2

\* a clamp without the upper bound
ClampBpmLowOnly(h) == Max(30, Round(h))

\* Math.max(30, Math.min(300, Math.round(next)))
ClampBpm(h) == Max(30, Min(300, Round(h)))

\* Math.max(1, Math.min(12, Math.floor(next))), next an integer
ClampBeats(n) == Max(1, Min(12, n))

\* Math.max(0, Math.min(beatsPerBar - 1, Math.floor(beatIndex)))
\* an index outside the bar wraps around instead of stopping at its ends
BeatIdxWrapped(n, beatIndex) == beatIndex % n

BeatIdx(n, beatIndex) == Max(0, Min(n - 1, beatIndex))

\* a bar counter that counts every tick
BarAfterEveryTick(beatInBar, bar) == bar + 1

\* if (beatInBar === 0) currentBar++
BarAfter(beatInBar, bar) == IF beatInBar = 0 THEN bar + 1 ELSE bar

NoTick == [click |-> "none", gain |-> 0, beatInBar |-> 0, barIndex |-> 0]

\* a callback that plays the soft click on every beat
TickOfSoftOnly(beat, bar, n, acc, vol) ==
  LET beatInBar == beat % n
      v == Clamp(0, 10, vol[beatInBar + 1])
  IN [click |-> "low",
      gain |-> 6 * v,
      beatInBar |-> beatInBar,
      barIndex |-> BarAfter(beatInBar, bar)]

\* the Tone.Loop callback: the click it plays and what it tells the subscriber
TickOf(beat, bar, n, acc, vol) ==
  LET beatInBar == beat % n
      v == Clamp(0, 10, vol[beatInBar + 1])
  IN [click |-> IF acc[beatInBar + 1] THEN "high" ELSE "low",
      gain |-> IF acc[beatInBar + 1] THEN 9 * v ELSE 6 * v,
      beatInBar |-> beatInBar,
      barIndex |-> BarAfter(beatInBar, bar)]

\* the piano page after its first render: nothing pressed, audio not started;
\* the volume bar after its first render: no drag, no timer
EmptyMap == [k \in {} |-> 0]

InitPiano ==
  /\ dragging = FALSE
  /\ debounceTimer = {}
  /\ lastChange = {}
  /\ atRelease = {}
  /\ audioEnabled = FALSE
  /\ transpose = 0
  /\ pressed = {}
  /\ activeNotes = EmptyMap
  /\ startInFlight = FALSE
  /\ started = FALSE
  /\ presses = << >>
  /\ keysDown = {}
  /\ sounding = EmptyMap

InitMetronome ==
  /\ initialized = FALSE
  /\ beatsPerBar = 4
  /\ bpm = 100
  /\ isRunning = FALSE
  /\ currentBeat = 0
  /\ currentBar = 0
  /\ accents = [Fill(4, FALSE) EXCEPT ![1] = TRUE]
  /\ volumes = Fill(4, 10)
  /\ loopStarted = FALSE
  /\ lastTick = NoTick
  /\ nTicks = 0
  /\ resized = FALSE
  /\ lastCall = "none"
  /\ oddToggles = FALSE

\* --------------------------------------------- the asynchronous call chain
\* The engine and the audio state of the component as one record, threaded
\* through the continuations that one event makes runnable.
Eng == [ctxState |-> ctxState, loaded |-> loaded, sampler |-> sampler,
        useSynthFallback |-> useSynthFallback, synthBus |-> synthBus,
        calls |-> calls, nCalls |-> nCalls, ringing |-> ringing,
        scheduled |-> scheduled, lastRender |-> lastRender, prevRender |-> prevRender,
        audioReady |-> audioReady, loading |-> loading, error |-> error,
        engine |-> engine, prepareReturned |-> prepareReturned,
        initialized |-> initialized, isRunning |-> isRunning,
        currentBeat |-> currentBeat, currentBar |-> currentBar,
        loopStarted |-> loopStarted, nTicks |-> nTicks, resized |-> resized,
        lastCall |-> lastCall, oddToggles |-> oddToggles]

SetEng(E) ==
  /\ ctxState' = E.ctxState
  /\ loaded' = E.loaded
  /\ sampler' = E.sampler
  /\ useSynthFallback' = E.useSynthFallback
  /\ synthBus' = E.synthBus
  /\ calls' = E.calls
  /\ nCalls' = E.nCalls
  /\ ringing' = E.ringing
  /\ scheduled' = E.scheduled
  /\ lastRender' = E.lastRender
  /\ prevRender' = E.prevRender
  /\ audioReady' = E.audioReady
  /\ loading' = E.loading
  /\ error' = E.error
  /\ engine' = E.engine
  /\ prepareReturned' = E.prepareReturned
  /\ initialized' = E.initialized
  /\ isRunning' = E.isRunning
  /\ currentBeat' = E.currentBeat
  /\ currentBar' = E.currentBar
  /\ loopStarted' = E.loopStarted
  /\ nTicks' = E.nTicks
  /\ resized' = E.resized
  /\ lastCall' = E.lastCall
  /\ oddToggles' = E.oddToggles
  /\ UNCHANGED <<beatsPerBar, bpm, accents, volumes, lastTick, pianoVars, barVars>>

Call(kind, pad, velocity) ==
  [kind |-> kind, pad |-> pad, velocity |-> velocity, id |-> 0, pc |-> "new"]

\* no prepareAudio call has returned yet
NoReturn == [value |-> "none", ctx |-> "none"]
\* a prepareAudio call returns v
Returned(E, v) == [E EXCEPT !.prepareReturned = [value |-> v, ctx |-> E.ctxState]]

\* the call waits for a backend promise
Park(E, t, pc) == [E EXCEPT !.calls = Append(@, [t EXCEPT !.pc = pc])]

\* what `await ensureAudioStarted()` yields to a caller that tests it
AudioStartedResult(state) == state = "running"

\* a catch handler that does not set the flag
FallbackNotSet(ok, cur) == cur

\* useSynthFallback after the load promise settled
FallbackAfterLoad(ok, cur) == IF ok THEN cur ELSE TRUE

\* triggerPad from the choke on: the commands go to the backend
Render(E, t, fails) ==
  LET cmds == RenderCmds(t.pad, t.velocity, E.useSynthFallback, E.sampler, fails)
      snd == BackendRun([ringing |-> E.ringing, scheduled |-> E.scheduled], cmds, t.pad)
  IN [E EXCEPT !.ringing = snd.ringing,
               !.scheduled = snd.scheduled,
               !.prevRender = Summary(E.lastRender),
               !.lastRender =
                  [id |-> t.id, pad |-> t.pad, velocity |-> t.velocity,
                   mode |-> IF E.useSynthFallback THEN "synth" ELSE "samples",
                   cmds |-> cmds, threw |-> Threw(cmds),
                   before |-> E.ringing]]

RECURSIVE EnsureStage(_, _, _)
RECURSIVE AfterLoad(_, _, _)

\* a getDrumSampler() that builds a new sampler on every call
LoadStageNoMemo(E, t, fails) ==
  IF E.useSynthFallback THEN AfterLoad([E EXCEPT !.synthBus = TRUE], t, fails)
  ELSE Park([E EXCEPT !.loaded = "pending", !.sampler = TRUE], t, "awaitLoad")

\* getDrumSampler(): the fallback branch, the memoized promise, or a new load
LoadStage(E, t, fails) ==
  IF E.useSynthFallback THEN AfterLoad([E EXCEPT !.synthBus = TRUE], t, fails)
  ELSE IF E.loaded = "null"
    THEN Park([E EXCEPT !.loaded = "pending", !.sampler = TRUE], t, "awaitLoad")
  ELSE IF E.loaded = "pending" THEN Park(E, t, "awaitLoad")
  ELSE AfterLoad(E, t, fails)

\* a start() that leaves the counters where they are
StartKeepsCounters(E) ==
  [E EXCEPT !.initialized = TRUE, !.loopStarted = TRUE, !.isRunning = TRUE,
            !.nTicks = 0, !.resized = FALSE]

\* start() from init() on
StartBody(E) ==
  [E EXCEPT !.initialized = TRUE, !.currentBeat = 0, !.currentBar = 0,
            !.loopStarted = TRUE, !.isRunning = TRUE,
            !.nTicks = 0, !.resized = FALSE]

\* after `await ensureAudioStarted()`: prepareAudio and start() test the result
AfterEnsure(E, t, fails) ==
  IF t.kind = "start"
    THEN (IF AudioStartedResult(E.ctxState) THEN StartBody(E) ELSE E)
  ELSE IF t.kind = "prepareAudio" /\ ~AudioStartedResult(E.ctxState)
    THEN Returned([E EXCEPT !.error = "locked", !.loading = FALSE], "false")
    ELSE LoadStage(E, t, fails)

\* triggerPad(pad, velocity) from its first line
TriggerPad(E, pad, velocity, fails) ==
  EnsureStage([E EXCEPT !.nCalls = @ + 1],
              [Call("triggerPad", pad, velocity) EXCEPT !.id = E.nCalls + 1], fails)

\* ensureAudioStarted(): Tone.start() unless the context runs
EnsureStage(E, t, fails) ==
  IF E.ctxState # "running" THEN Park(E, t, "awaitStart")
  ELSE AfterEnsure(E, t, fails)

\* start() up to its await
start(E) == EnsureStage([E EXCEPT !.lastCall = "start"], Call("start", "null", 0), {})

\* a stop() that also clears the counters
stopAndReset(E) ==
  IF ~E.initialized THEN [E EXCEPT !.lastCall = "stop"]
  ELSE [E EXCEPT !.loopStarted = FALSE, !.isRunning = FALSE,
                 !.currentBeat = 0, !.currentBar = 0, !.lastCall = "stop"]

\* stop()
stop(E) ==
  IF ~E.initialized THEN [E EXCEPT !.lastCall = "stop"]
  ELSE [E EXCEPT !.loopStarted = FALSE, !.isRunning = FALSE, !.lastCall = "stop"]

\* toggle()
toggle(E) ==
  LET T == [E EXCEPT !.oddToggles = ~@]
  IN IF T.isRunning THEN stop(T) ELSE start(T)

\* an indicator that never leaves "samples"
EngineAlwaysSamples(fallback) == "samples"

\* setEngine(isUsingFallback() ? 'synth' : 'samples')
EngineShown(fallback) == IF fallback THEN "synth" ELSE "samples"

\* after `await getDrumSampler()`
AfterLoad(E, t, fails) ==
  IF t.kind = "triggerPad" THEN Render(E, t, fails)
  ELSE LET E1 == Returned([E EXCEPT !.engine = EngineShown(E.useSynthFallback),
                                    !.audioReady = TRUE,
                                    !.loading = FALSE], "true")
       IN IF t.pad = "null" THEN E1 ELSE TriggerPad(E1, t.pad, t.velocity, fails)

\* prepareAudio(), then the caller's triggerPad when it returns true
PrepareAudio(E, pad, velocity, fails) ==
  IF E.audioReady
    THEN (IF pad = "null" THEN Returned(E, "true")
          ELSE TriggerPad(Returned(E, "true"), pad, velocity, fails))
  ELSE IF E.loading THEN Returned(E, "false")
  ELSE EnsureStage([E EXCEPT !.loading = TRUE, !.error = "null"],
                   Call("prepareAudio", pad, velocity), fails)

\* the calls parked at `pc` go on, oldest first; f[i] are the backend failures
\* the i-th of them meets
RECURSIVE Resume(_, _, _, _, _)
Resume(E, old, i, pc, f) ==
  IF i > Len(old) THEN E
  ELSE IF old[i].pc # pc THEN Resume(Park(E, old[i], old[i].pc), old, i + 1, pc, f)
  ELSE Resume(IF pc = "awaitStart" THEN AfterEnsure(E, old[i], f[i])
                                   ELSE AfterLoad(E, old[i], f[i]),
              old, i + 1, pc, f)

Reverse(q) == [i \in 1..Len(q) |-> q[Len(q) + 1 - i]]

\* the calls parked at `pc` go on, the latest first
ResumeAllNewestFirst(E, pc, f) ==
  Resume([E EXCEPT !.calls = << >>], Reverse(E.calls), 1, pc, Reverse(f))

ResumeAll(E, pc, f) == Resume([E EXCEPT !.calls = << >>], E.calls, 1, pc, f)

\* ------------------------------------------------------- engine: the events
TriggerPads == {"Kick", "HiHatClosed", "HiHatOpen", "HiHatPedal"}
Velocities == {90, 100}
\* at most one backend call of a hit throws
FailChoices == {{}} \cup {{x} : x \in FailSites}

\* triggerPad calls still to be made by parked prepareAudio callers
Chained(cs) == Len(SelectSeq(cs, LAMBDA t : t.kind = "prepareAudio" /\ t.pad # "null"))

CanCall == /\ Len(calls) < MaxCalls
           /\ nCalls + Chained(calls) < MaxTriggers

InitAudio ==
  /\ ctxState \in {"suspended", "running"}
  /\ loaded = "null"
  /\ sampler = FALSE
  /\ useSynthFallback = FALSE
  /\ synthBus = FALSE
  /\ hiHatOpenLevel = 0
  /\ calls = << >>
  /\ nCalls = 0
  /\ ringing = {}
  /\ scheduled = {}
  /\ lastRender = NoRender
  /\ prevRender = NoPrev
  /\ audioReady = FALSE
  /\ loading = FALSE
  /\ error = "null"
  /\ engine = "samples"
  /\ prepareReturned = NoReturn

\* a setter that stores the value as it comes
setHiHatOpenUnclamped(value) == value

\* setHiHatOpenByCC4(value): the new level, max(0, min(1, value / 127)), in
\* units of 1/127
setHiHatOpenByCC4(value) == Max(0, Min(127, value))

\* a caller invokes the exported setHiHatOpenByCC4
CallSetHiHatOpen(value) ==
  /\ hiHatOpenLevel' = setHiHatOpenByCC4(value)
  /\ UNCHANGED <<ctxState, loaded, sampler, useSynthFallback, synthBus, calls, nCalls,
                 ringing, scheduled, lastRender, prevRender, audioReady, loading, error,
                 engine, prepareReturned, bindVars, metroVars, pianoVars, barVars>>

\* a caller invokes the exported triggerPad
CallTriggerPad(pad, velocity, fails) ==
  /\ CanCall
  /\ SetEng(TriggerPad(Eng, pad, velocity, fails))
  /\ UNCHANGED <<hiHatOpenLevel, bindVars>>

\* the "Enable audio" button
EnableAudio ==
  /\ ~audioReady /\ ~loading
  /\ Len(calls) < MaxCalls
  /\ SetEng(PrepareAudio(Eng, "null", 100, {}))
  /\ UNCHANGED <<hiHatOpenLevel, bindVars>>

\* handlePad outside edit mode: prepareAudio, then the hit when it returns true
HandlePadPlay(pad, fails) ==
  /\ ~loading
  /\ ~editMode
  /\ CanCall
  /\ SetEng(PrepareAudio(Eng, pad, 100, fails))
  /\ UNCHANGED <<hiHatOpenLevel, bindVars>>

\* the audio context starts to run: every pending Tone.start() resolves
ContextRuns(f) ==
  /\ ctxState = "suspended"
  /\ SetEng(ResumeAll([Eng EXCEPT !.ctxState = "running"], "awaitStart", f))
  /\ UNCHANGED <<hiHatOpenLevel, bindVars>>

\* the pending Tone.start() calls reject; ensureAudioStarted swallows it
ToneStartRejects(f) ==
  /\ \E i \in 1..Len(calls) : calls[i].pc = "awaitStart"
  /\ SetEng(ResumeAll(Eng, "awaitStart", f))
  /\ UNCHANGED <<hiHatOpenLevel, bindVars>>

\* the sampler's onload / onerror: the load promise settles
SamplerSettles(ok, f) ==
  /\ loaded = "pending"
  /\ SetEng(ResumeAll([Eng EXCEPT !.loaded = IF ok THEN "ready" ELSE "failed",
                                  !.useSynthFallback = FallbackAfterLoad(ok, @),
                                  !.synthBus = IF ok THEN @ ELSE TRUE],
                      "awaitLoad", f))
  /\ UNCHANGED <<hiHatOpenLevel, bindVars>>

\* time passes: the scheduled releases take effect
Elapse ==
  /\ scheduled # {}
  /\ ringing' = {r \in ringing : r.voice \notin scheduled}
  /\ scheduled' = {}
  /\ UNCHANGED <<ctxState, loaded, sampler, useSynthFallback, synthBus, hiHatOpenLevel,
                 calls, nCalls, lastRender, prevRender, audioReady, loading, error,
                 engine, prepareReturned, bindVars, metroVars, pianoVars, barVars>>

\* one choice of backend failures for each parked call that goes on
FailMaps(pc) ==
  {f \in [1..Len(calls) -> FailChoices] :
     \A i \in 1..Len(calls) :
        (calls[i].pc # pc \/ calls[i].pad = "null") => f[i] = {}}

NextEngine ==
  \/ \E pad \in TriggerPads, v \in Velocities, fails \in FailChoices :
       CallTriggerPad(pad, v, fails)
  \/ EnableAudio
  \/ \E f \in FailMaps("awaitStart") : ContextRuns(f)
  \/ \E f \in FailMaps("awaitStart") : ToneStartRejects(f)
  \/ \E ok \in BOOLEAN, f \in FailMaps("awaitLoad") : SamplerSettles(ok, f)
  \/ Elapse

\* the backend accepts every command
NoBackendFailure == {{}}

\* the page after it loaded: nothing played, nothing bound
Init == InitAudio /\ InitBindings /\ InitMetronome /\ InitPiano

SpecEngine == Init /\ [][NextEngine]_vars

\* controller values handed to setHiHatOpenByCC4: below, inside and above 0..127
OpenValues == {0 - 5, 64, 127, 200}

\* hits and hi-hat openness changes in any order
NextOpenness ==
  \/ \E pad \in HiHatPads, fails \in NoBackendFailure : CallTriggerPad(pad, 100, fails)
  \/ \E v \in OpenValues : CallSetHiHatOpen(v)
  \/ \E f \in FailMaps("awaitStart") : ContextRuns(f)
  \/ \E ok \in BOOLEAN, f \in FailMaps("awaitLoad") : SamplerSettles(ok, f)
  \/ Elapse

SpecOpenness == Init /\ [][NextOpenness]_vars

\* the page's two ways to prepare the audio: the button and a tap on a pad
NextPrepare ==
  \/ EnableAudio
  \/ \E pad \in TriggerPads, fails \in FailChoices : HandlePadPlay(pad, fails)
  \/ \E f \in FailMaps("awaitStart") : ContextRuns(f)
  \/ \E f \in FailMaps("awaitStart") : ToneStartRejects(f)
  \/ \E ok \in BOOLEAN, f \in FailMaps("awaitLoad") : SamplerSettles(ok, f)
  \/ Elapse

SpecPrepare == Init /\ [][NextPrepare]_vars


\* ------------------------------------------------ binding resolver: events
audioUnchanged ==
  UNCHANGED <<ctxState, loaded, sampler, useSynthFallback, synthBus, calls, nCalls,
              ringing, scheduled, lastRender, prevRender, audioReady, loading, error,
              engine, prepareReturned, metroVars, pianoVars, barVars>>

\* a setter that leaves the storage alone
setBindingsOnly(next) ==
  /\ bindings' = next
  /\ UNCHANGED stored

\* persistBindings(next): state, storage and bindingsRef
persistBindings(next) ==
  /\ bindings' = next
  /\ stored' = {JSONStringify(next)}

\* MidiDevicePicker's onSelect: setSelectedId(id || null)
SelectDevice(id) ==
  LET sel == IF id = "" THEN {} ELSE {id}
  IN /\ selectedId' = sel
     /\ ccDownRef' = EffectCcDown(ccDownRef, sel, listenMidiForMidi, listenCcForMidi)
     /\ UNCHANGED <<editMode, modalForMidi, listenKeyForMidi, listenMidiForMidi,
                    listenCcForMidi, conflictKey, conflictMidi, conflictCc, bindings,
                    stored, keyListeners, ccHeld, hiHatOpenLevel, legacyStored,
                 migrations>>
     /\ audioUnchanged

ToggleEditMode ==
  /\ editMode' = ~editMode
  /\ UNCHANGED <<selectedId, modalForMidi, listenKeyForMidi, listenMidiForMidi,
                 listenCcForMidi, conflictKey, conflictMidi, conflictCc, bindings,
                 stored, keyListeners, ccDownRef, ccHeld, hiHatOpenLevel, legacyStored,
                 migrations>>
  /\ audioUnchanged

\* handlePad in edit mode: the modal of the pad opens
HandlePadEdit(t) ==
  /\ ~loading
  /\ editMode
  /\ modalForMidi' = {t}
  /\ conflictKey' = {}
  /\ conflictMidi' = {}
  /\ conflictCc' = {}
  /\ UNCHANGED <<selectedId, editMode, listenKeyForMidi, listenMidiForMidi,
                 listenCcForMidi, bindings, stored, keyListeners, ccDownRef, ccHeld,
                 hiHatOpenLevel, legacyStored,
                 migrations>>
  /\ audioUnchanged

\* the modal's x and Close buttons
CloseModal ==
  /\ modalForMidi # {}
  /\ modalForMidi' = {}
  /\ listenKeyForMidi' = {}
  /\ listenMidiForMidi' = {}
  /\ listenCcForMidi' = {}
  /\ conflictKey' = {}
  /\ conflictMidi' = {}
  /\ conflictCc' = {}
  /\ ccDownRef' = EffectCcDown(ccDownRef, selectedId, {}, {})
  /\ UNCHANGED <<selectedId, editMode, bindings, stored, keyListeners, ccHeld,
                 hiHatOpenLevel, legacyStored,
                 migrations>>
  /\ audioUnchanged

\* "Add key binding": arms a `once` keydown listener that closes over the
\* bindings and the modal target of this render
StartKeyCaptureUpTo(n) ==
  /\ modalForMidi # {}
  /\ Len(keyListeners) < n
  /\ listenMidiForMidi' = {}
  /\ listenCcForMidi' = {}
  /\ listenKeyForMidi' = modalForMidi
  /\ conflictKey' = {}
  /\ conflictMidi' = {}
  /\ conflictCc' = {}
  /\ keyListeners' = Append(keyListeners,
        [bindings |-> bindings, target |-> CHOOSE t \in modalForMidi : TRUE])
  /\ ccDownRef' = EffectCcDown(ccDownRef, selectedId, {}, {})
  /\ UNCHANGED <<selectedId, editMode, modalForMidi, bindings, stored, ccHeld,
                 hiHatOpenLevel, legacyStored,
                 migrations>>
  /\ audioUnchanged

StartKeyCapture == StartKeyCaptureUpTo(MaxListeners)

\* "Add MIDI binding"
StartMidiCapture ==
  /\ modalForMidi # {}
  /\ selectedId # {}
  /\ listenKeyForMidi' = {}
  /\ listenCcForMidi' = {}
  /\ conflictKey' = {}
  /\ conflictMidi' = {}
  /\ conflictCc' = {}
  /\ listenMidiForMidi' = modalForMidi
  /\ ccDownRef' = EffectCcDown(ccDownRef, selectedId, modalForMidi, {})
  /\ UNCHANGED <<selectedId, editMode, modalForMidi, bindings, stored, keyListeners,
                 ccHeld, hiHatOpenLevel, legacyStored,
                 migrations>>
  /\ audioUnchanged

\* "Add MIDI CC binding"
StartCcCapture ==
  /\ modalForMidi # {}
  /\ selectedId # {}
  /\ listenKeyForMidi' = {}
  /\ listenMidiForMidi' = {}
  /\ listenCcForMidi' = modalForMidi
  /\ conflictKey' = {}
  /\ conflictMidi' = {}
  /\ conflictCc' = {}
  /\ ccDownRef' = EffectCcDown(ccDownRef, selectedId, {}, modalForMidi)
  /\ UNCHANGED <<selectedId, editMode, modalForMidi, bindings, stored, keyListeners,
                 ccHeld, hiHatOpenLevel, legacyStored,
                 migrations>>
  /\ audioUnchanged

\* the Remove button of one value of the modal's target
RemoveBinding(field, x) ==
  /\ modalForMidi # {}
  /\ LET t == CHOOSE m \in modalForMidi : TRUE
         cur == normalizeBinding(bindings, t)
     IN /\ includes(cur[field], x)
        /\ persistBindings(SetEntry(bindings, t, [cur EXCEPT ![field] = filterOut(@, x)]))
  /\ UNCHANGED <<selectedId, editMode, modalForMidi, listenKeyForMidi,
                 listenMidiForMidi, listenCcForMidi, conflictKey, conflictMidi,
                 conflictCc, keyListeners, ccDownRef, ccHeld, hiHatOpenLevel, legacyStored,
                 migrations>>
  /\ audioUnchanged

RemoveKey(k) == RemoveBinding("keys", k)
RemoveMidi(n) == RemoveBinding("midis", n)
RemoveCc(cc) == RemoveBinding("ccs", cc)

\* "Reset bindings", confirmed
ResetAll ==
  /\ editMode
  /\ listenKeyForMidi' = {}
  /\ listenMidiForMidi' = {}
  /\ listenCcForMidi' = {}
  /\ conflictKey' = {}
  /\ conflictMidi' = {}
  /\ conflictCc' = {}
  /\ persistBindings(EmptyTable)
  /\ ccDownRef' = EffectCcDown(ccDownRef, selectedId, {}, {})
  /\ UNCHANGED <<selectedId, editMode, modalForMidi, keyListeners, ccHeld,
                 hiHatOpenLevel, legacyStored,
                 migrations>>
  /\ audioUnchanged

\* one `once` listener handles the key: acc is what the listeners before it
\* left in [bindings, stored, conflictKey]
RunOnce(acc, L, k) ==
  IF KeyConflict(L.bindings, L.target, k)
    THEN [acc EXCEPT !.conflictKey = {k}]
    ELSE LET cur == normalizeBinding(L.bindings, L.target)
             next == SetEntry(L.bindings, L.target, [cur EXCEPT !.keys = Append(@, k)])
         IN IF ~includes(cur.keys, k)
              THEN [acc EXCEPT !.bindings = next, !.stored = {JSONStringify(next)}]
              ELSE acc

RECURSIVE RunListeners(_, _, _)
RunListeners(acc, ls, k) ==
  IF ls = << >> THEN acc
  ELSE RunListeners(RunOnce(acc, Head(ls), k), Tail(ls), k)

\* a keydown on the window while capture listeners are armed: each runs once,
\* in the order in which they were added
KeyDown(key) ==
  /\ keyListeners # << >>
  /\ LET acc == RunListeners([bindings |-> bindings, stored |-> stored,
                              conflictKey |-> conflictKey],
                             keyListeners, ToLowerCase(key))
     IN /\ bindings' = acc.bindings
        /\ stored' = acc.stored
        /\ conflictKey' = acc.conflictKey
  /\ listenKeyForMidi' = {}
  /\ keyListeners' = << >>
  /\ UNCHANGED <<selectedId, editMode, modalForMidi, listenMidiForMidi,
                 listenCcForMidi, conflictMidi, conflictCc, ccDownRef, ccHeld,
                 hiHatOpenLevel, legacyStored,
                 migrations>>
  /\ audioUnchanged

\* triggerMidi(noteNumber, velocity)
triggerMidi(E, noteNumber, velocity, fails) ==
  IF midiNoteToPad(noteNumber) = "null" THEN E
  ELSE TriggerPad(E, midiNoteToPad(noteNumber), velocity, fails)

\* the listener gets as far as triggerPad
Fires(noteNumber) == audioReady /\ midiNoteToPad(noteNumber) # "null"

\* a note message of the selected input
NoteOn(note, vel, fails) ==
  /\ selectedId # {}
  /\ IF listenMidiForMidi # {} /\ vel > 0
       THEN LET t == CHOOSE m \in listenMidiForMidi : TRUE
                owner == MidiOwnerLabel(bindings, t, note)
            IN /\ IF owner # ""
                    THEN /\ conflictMidi' = {[note |-> note, ownerLabel |-> owner]}
                         /\ UNCHANGED <<bindings, stored>>
                    ELSE /\ bindings' = AddMidi(bindings, t, note)
                         /\ stored' = IF AddMidi(bindings, t, note) # bindings
                                        THEN {JSONStringify(AddMidi(bindings, t, note))}
                                        ELSE stored
                         /\ UNCHANGED conflictMidi
               /\ listenMidiForMidi' = {}
               /\ ccDownRef' = EffectCcDown(ccDownRef, selectedId, {}, listenCcForMidi)
               /\ audioUnchanged
       ELSE LET resolved == getResolvedIncomingMidi(bindings, note)
            IN /\ IF vel > 0 /\ Fires(resolved)
                    THEN CanCall /\ SetEng(triggerMidi(Eng, resolved, vel, fails))
                    ELSE audioUnchanged
               /\ UNCHANGED <<bindings, stored, conflictMidi, listenMidiForMidi,
                              ccDownRef>>
  /\ UNCHANGED <<selectedId, editMode, modalForMidi, listenKeyForMidi, listenCcForMidi,
                 conflictKey, conflictCc, keyListeners, ccHeld, hiHatOpenLevel, legacyStored,
                 migrations>>

\* the capture branch of the noteon listener that was subscribed while the
\* capture for t was pending: ref is bindingsRef.current, S is the state the
\* queued updates lead to
CaptureNote(S, ref, t, note) ==
  IF MidiOwnerLabel(ref, t, note) # ""
    THEN [S EXCEPT !.conflictMidi =
                      {[note |-> note, ownerLabel |-> MidiOwnerLabel(ref, t, note)]}]
  ELSE IF AddMidi(S.bindings, t, note) # S.bindings
    THEN [S EXCEPT !.bindings = AddMidi(S.bindings, t, note),
                   !.stored = {JSONStringify(AddMidi(S.bindings, t, note))}]
  ELSE S

\* what the note capture works on
CaptureState == [bindings |-> bindings, stored |-> stored, conflictMidi |-> conflictMidi]

\* two note messages of the selected input delivered one after the other,
\* before React has rendered the update of the first: both reach the listener
\* of the render in which the capture was pending
NoteBurst(n1, n2) ==
  /\ selectedId # {}
  /\ listenMidiForMidi # {}
  /\ LET t == CHOOSE m \in listenMidiForMidi : TRUE
         S == CaptureNote(CaptureNote(CaptureState, bindings, t, n1), bindings, t, n2)
     IN /\ bindings' = S.bindings
        /\ stored' = S.stored
        /\ conflictMidi' = S.conflictMidi
  /\ listenMidiForMidi' = {}
  /\ ccDownRef' = EffectCcDown(ccDownRef, selectedId, {}, listenCcForMidi)
  /\ UNCHANGED <<selectedId, editMode, modalForMidi, listenKeyForMidi, listenCcForMidi,
                 conflictKey, conflictCc, keyListeners, ccHeld, hiHatOpenLevel, legacyStored,
                 migrations>>
  /\ audioUnchanged

\* a controller message of the selected input
CcEvent(cc, val, fails) ==
  /\ selectedId # {}
  /\ hiHatOpenLevel' = IF cc = FootController THEN setHiHatOpenByCC4(val)
                                               ELSE hiHatOpenLevel
  /\ ccHeld' = IF val >= CC_TRIGGER_THRESHOLD THEN ccHeld \cup {cc} ELSE ccHeld \ {cc}
  /\ IF listenCcForMidi # {} /\ val > 0
       THEN LET t == CHOOSE m \in listenCcForMidi : TRUE
                owner == CcOwnerLabel(bindings, t, cc)
            IN /\ IF owner # ""
                    THEN /\ conflictCc' = {[cc |-> cc, ownerLabel |-> owner]}
                         /\ UNCHANGED <<bindings, stored>>
                    ELSE /\ bindings' = AddCc(bindings, t, cc)
                         /\ stored' = IF AddCc(bindings, t, cc) # bindings
                                        THEN {JSONStringify(AddCc(bindings, t, cc))}
                                        ELSE stored
                         /\ UNCHANGED conflictCc
               /\ listenCcForMidi' = {}
               /\ ccDownRef' = EffectCcDown(ccDownRef, selectedId, listenMidiForMidi, {})
               /\ audioUnchanged
       ELSE LET resolved == getResolvedIncomingCc(bindings, cc)
                isDown == val >= CC_TRIGGER_THRESHOLD
                wasDown == cc \in ccDownRef
            IN /\ ccDownRef' = IF isDown THEN ccDownRef \cup {cc} ELSE ccDownRef \ {cc}
               /\ IF isDown /\ ~wasDown /\ resolved # {}
                       /\ Fires(CHOOSE m \in resolved : TRUE)
                    THEN /\ CanCall
                         /\ SetEng(triggerMidi(Eng, CHOOSE m \in resolved : TRUE,
                                               Clamp(1, 127, val), fails))
                    ELSE audioUnchanged
               /\ UNCHANGED <<bindings, stored, conflictCc, listenCcForMidi>>
  /\ UNCHANGED <<selectedId, editMode, modalForMidi, listenKeyForMidi,
                 listenMidiForMidi, conflictKey, conflictMidi, keyListeners,
                 legacyStored,
                 migrations>>

\* the backend accepts every command of the hits the bindings trigger
NoFailure == {{}}

\* the binding modal while the audio is still locked: every capture kind, with
\* one input selected and controller values below the trigger threshold
CaptureDevices == {"in1"}
CaptureCcs == {20}
CaptureValues == {0, 40}

NextBindings ==
  \/ \E id \in CaptureDevices : SelectDevice(id)
  \/ ToggleEditMode
  \/ \E t \in Targets : HandlePadEdit(t)
  \/ CloseModal
  \/ StartKeyCapture
  \/ StartMidiCapture
  \/ StartCcCapture
  \/ \E k \in KeyNames : RemoveKey(k)
  \/ \E n \in NoteNumbers : RemoveMidi(n)
  \/ \E cc \in CaptureCcs : RemoveCc(cc)
  \/ ResetAll
  \/ \E k \in KeyNames : KeyDown(k)
  \/ \E n \in NoteNumbers, v \in NoteVelocities, f \in NoFailure : NoteOn(n, v, f)
  \/ \E cc \in CaptureCcs, v \in CaptureValues, f \in NoFailure : CcEvent(cc, v, f)

\* ... with the audio context still suspended
InitLocked == Init /\ ctxState = "suspended"

SpecBindings == InitLocked /\ [][NextBindings]_vars

\* key captures started while the listener of an earlier one is still armed
MaxPending == 2

NextKeys ==
  \/ ToggleEditMode
  \/ \E t \in Targets : HandlePadEdit(t)
  \/ CloseModal
  \/ StartKeyCaptureUpTo(MaxPending)
  \/ \E k \in KeyNames : RemoveKey(k)
  \/ ResetAll
  \/ \E k \in KeyNames : KeyDown(k)

SpecKeys == InitLocked /\ [][NextKeys]_vars

\* note captures fed by single messages and by chords
BurstNotes == {36, 60, 61}

NextOneShot ==
  \/ \E id \in CaptureDevices : SelectDevice(id)
  \/ ToggleEditMode
  \/ \E t \in Targets : HandlePadEdit(t)
  \/ CloseModal
  \/ StartMidiCapture
  \/ \E n \in BurstNotes : RemoveMidi(n)
  \/ \E n \in BurstNotes, v \in NoteVelocities, f \in NoFailure : NoteOn(n, v, f)
  \/ \E n1, n2 \in BurstNotes : NoteBurst(n1, n2)

SpecOneShot == InitLocked /\ [][NextOneShot]_vars

\* a bound controller that plays a pad, with the audio enabled
NextController ==
  \/ EnableAudio
  \/ \E f \in FailMaps("awaitStart") : ContextRuns(f)
  \/ \E ok \in BOOLEAN, f \in FailMaps("awaitLoad") : SamplerSettles(ok, f)
  \/ \E id \in Devices : SelectDevice(id)
  \/ ToggleEditMode
  \/ \E t \in Targets : HandlePadEdit(t)
  \/ CloseModal
  \/ StartCcCapture
  \/ \E cc \in CcNumbers, v \in CcValues, f \in NoFailure : CcEvent(cc, v, f)

SpecController == Init /\ [][NextController]_vars

\* incoming notes with the audio enabled; the page may find a record of an
\* earlier session in storage, one of them listing Kick's note under HH Close
StoredRecords ==
  {{}} \cup {{JSONStringify(SetEntry(EmptyTable, 42, [EmptyBinding EXCEPT !.midis = << n >>]))} :
               n \in NoteNumbers}

InitNotes ==
  /\ InitAudio
  /\ InitPiano
  /\ InitMetronome
  /\ selectedId = {}
  /\ editMode = FALSE
  /\ modalForMidi = {}
  /\ listenKeyForMidi = {}
  /\ listenMidiForMidi = {}
  /\ listenCcForMidi = {}
  /\ conflictKey = {}
  /\ conflictMidi = {}
  /\ conflictCc = {}
  /\ stored \in StoredRecords
  /\ bindings = LoadBindings(stored)
  /\ keyListeners = << >>
  /\ ccDownRef = {}
  /\ ccHeld = {}
  /\ legacyStored = {}
  /\ migrations = 0

NextNotes ==
  \/ EnableAudio
  \/ \E f \in FailMaps("awaitStart") : ContextRuns(f)
  \/ \E ok \in BOOLEAN, f \in FailMaps("awaitLoad") : SamplerSettles(ok, f)
  \/ \E id \in CaptureDevices : SelectDevice(id)
  \/ ToggleEditMode
  \/ \E t \in Targets : HandlePadEdit(t)
  \/ CloseModal
  \/ StartMidiCapture
  \/ \E n \in NoteNumbers : RemoveMidi(n)
  \/ \E n \in NoteNumbers, v \in NoteVelocities, f \in NoFailure : NoteOn(n, v, f)

SpecNotes == InitNotes /\ [][NextNotes]_vars

\* a text JSON.parse rejects: a record cut off after its opening brace
Unterminated == "{"
JSONParseThrows(text) == \E i \in 1..Len(text) : text[i].m = Unterminated
MalformedRecord == << [m |-> Unterminated, b |-> EmptyBinding] >>
MalformedLegacy == << [m |-> Unterminated, b |-> << >>] >>

\* a key map written by the older keys-only schema, and the table it holds
LegacyRecord == << [m |-> "36", b |-> <<"s">>], [m |-> "42", b |-> <<"f">>] >>
LegacyTable ==
  SetEntry(SetEntry(EmptyTable, 36, [keys |-> <<"s">>, midis |-> << >>, ccs |-> << >>]),
           42, [keys |-> <<"f">>, midis |-> << >>, ccs |-> << >>])

\* a start that ignores the older key map
MigrateNothing(text) == EmptyTable

\* the migration of the legacy key map: every key list wrapped into a binding
MigrateLegacy(text) ==
  [m \in {Number(text[i].m) : i \in 1..Len(text)} |->
     [keys |-> text[CHOOSE i \in 1..Len(text) : Number(text[i].m) = m].b,
      midis |-> << >>, ccs |-> << >>]]

\* the initializer gets as far as `if (migrated) return migrated`
MigrationTaken(raw, legacy) ==
  /\ raw = {} \/ JSONParseThrows(CHOOSE x \in raw : TRUE)
  /\ legacy # {} /\ ~JSONParseThrows(CHOOSE x \in legacy : TRUE)

\* the whole useState initializer of bindings: the current record if it is
\* there and parses, else the legacy key map if it is there and parses, else {}
InitialBindings(raw, legacy) ==
  IF raw # {} /\ ~JSONParseThrows(CHOOSE x \in raw : TRUE)
  THEN LoadBindings(raw)
  ELSE IF legacy # {} /\ ~JSONParseThrows(CHOOSE x \in legacy : TRUE)
       THEN MigrateLegacy(CHOOSE x \in legacy : TRUE)
       ELSE EmptyTable

\* the page of a user who bound several inputs in an earlier session: two
\* pads, the first with two values of every kind
StoredTable ==
  SetEntry(SetEntry(EmptyTable, 36,
                    [keys |-> <<"s", "d">>, midis |-> <<60, 61>>, ccs |-> <<20, 21>>]),
           42, [keys |-> <<"f">>, midis |-> <<62>>, ccs |-> <<22>>])
StoredKeys == {"s", "d", "f"}
StoredNotes == {60, 61, 62}
StoredCcs == {20, 21, 22}

InitStored ==
  /\ InitAudio
  /\ InitPiano
  /\ InitMetronome
  /\ ctxState = "suspended"
  /\ selectedId = {}
  /\ editMode = FALSE
  /\ modalForMidi = {}
  /\ listenKeyForMidi = {}
  /\ listenMidiForMidi = {}
  /\ listenCcForMidi = {}
  /\ conflictKey = {}
  /\ conflictMidi = {}
  /\ conflictCc = {}
  /\ stored \in {{JSONStringify(StoredTable)}, {MalformedRecord}, {}}
  /\ legacyStored \in {{}, {LegacyRecord}, {MalformedLegacy}}
  /\ bindings = InitialBindings(stored, legacyStored)
  /\ migrations = IF MigrationTaken(stored, legacyStored) THEN 1 ELSE 0
  /\ keyListeners = << >>
  /\ ccDownRef = {}
  /\ ccHeld = {}

NextStored ==
  \/ ToggleEditMode
  \/ \E t \in Targets : HandlePadEdit(t)
  \/ CloseModal
  \/ \E k \in StoredKeys : RemoveKey(k)
  \/ \E n \in StoredNotes : RemoveMidi(n)
  \/ \E cc \in StoredCcs : RemoveCc(cc)
  \/ ResetAll

SpecStored == InitStored /\ [][NextStored]_vars

\* loads of the page in one behaviour that take the migration
MaxLoads == 3

\* the page is loaded again: the component mounts anew, the bindings
\* initializer runs on what storage holds, the window's listeners are gone;
\* the audio module starts over in the state in which these behaviours
\* leave it
Reload ==
  /\ migrations < MaxLoads
  /\ bindings' = InitialBindings(stored, legacyStored)
  /\ migrations' = IF MigrationTaken(stored, legacyStored) THEN migrations + 1
                                                           ELSE migrations
  /\ selectedId' = {}
  /\ editMode' = FALSE
  /\ modalForMidi' = {}
  /\ listenKeyForMidi' = {}
  /\ listenMidiForMidi' = {}
  /\ listenCcForMidi' = {}
  /\ conflictKey' = {}
  /\ conflictMidi' = {}
  /\ conflictCc' = {}
  /\ keyListeners' = << >>
  /\ ccDownRef' = {}
  /\ UNCHANGED <<stored, legacyStored, ccHeld, hiHatOpenLevel>>
  /\ audioUnchanged

\* earlier sessions' storage, edits with the modal, and further loads
NextLoads ==
  \/ ToggleEditMode
  \/ \E t \in Targets : HandlePadEdit(t)
  \/ CloseModal
  \/ StartKeyCapture
  \/ \E k \in KeyNames : KeyDown(k)
  \/ \E k \in StoredKeys : RemoveKey(k)
  \/ ResetAll
  \/ Reload

SpecLoads == InitStored /\ [][NextLoads]_vars

\* ------------------------------------------------- beat scheduler: events
\* requested tempos in halves of a beat per minute: 10, 120.5, 200, 350
TempoRequests == {20, 241, 400, 700}
BeatRequests == {2, 13}
BeatIndexes == {2}
VolumeRequests == {3}

\* a caller invokes the exported start()
Start ==
  /\ Len(calls) < MaxCalls
  /\ SetEng(start(Eng))
  /\ UNCHANGED <<hiHatOpenLevel, bindVars>>

\* a caller invokes the exported stop()
Stop ==
  /\ SetEng(stop(Eng))
  /\ UNCHANGED <<hiHatOpenLevel, bindVars>>

\* the Play / Stop button
Toggle ==
  /\ Len(calls) < MaxCalls
  /\ SetEng(toggle(Eng))
  /\ UNCHANGED <<hiHatOpenLevel, bindVars>>

\* start() whose awaited unlock throws while the context is not running:
\* `catch {}` swallows the error and start() goes on with init()
StartAfterThrow ==
  /\ ctxState # "running"
  /\ SetEng(StartBody([Eng EXCEPT !.lastCall = "start"]))
  /\ UNCHANGED <<hiHatOpenLevel, bindVars>>

\* the started loop fires: one tick
Tick ==
  /\ loopStarted
  /\ currentBeat < MaxTicks
  /\ lastTick' = TickOf(currentBeat, currentBar, beatsPerBar, accents, volumes)
  /\ currentBar' = BarAfter(currentBeat % beatsPerBar, currentBar)
  /\ currentBeat' = currentBeat + 1
  /\ nTicks' = nTicks + 1
  /\ UNCHANGED <<pianoVars, barVars, audioVars, bindVars, initialized, beatsPerBar, bpm, isRunning,
                 accents, volumes, loopStarted, resized, lastCall, oddToggles>>

setBpm(next) ==
  /\ bpm' = ClampBpm(next)
  /\ UNCHANGED <<pianoVars, barVars, audioVars, bindVars, initialized, beatsPerBar, isRunning, currentBeat,
                 currentBar, accents, volumes, loopStarted, lastTick, nTicks, resized, lastCall, oddToggles>>

setBeatsPerBar(next) ==
  /\ beatsPerBar' = ClampBeats(next)
  /\ accents' = Resize(accents, ClampBeats(next), FALSE)
  /\ volumes' = Resize(volumes, ClampBeats(next), 10)
  /\ resized' = TRUE
  /\ UNCHANGED <<pianoVars, barVars, audioVars, bindVars, initialized, bpm, isRunning, currentBeat,
                 currentBar, loopStarted, lastTick, nTicks, lastCall, oddToggles>>

toggleAccentForBeat(beatIndex) ==
  /\ accents' = [accents EXCEPT ![BeatIdx(beatsPerBar, beatIndex) + 1] = ~@]
  /\ UNCHANGED <<pianoVars, barVars, audioVars, bindVars, initialized, beatsPerBar, bpm, isRunning,
                 currentBeat, currentBar, volumes, loopStarted, lastTick, nTicks,
                 resized, lastCall, oddToggles>>

setVolumeForBeat(beatIndex, value) ==
  /\ volumes' = [volumes EXCEPT ![BeatIdx(beatsPerBar, beatIndex) + 1] =
                                    Clamp(0, 10, value)]
  /\ UNCHANGED <<pianoVars, barVars, audioVars, bindVars, initialized, beatsPerBar, bpm, isRunning,
                 currentBeat, currentBar, accents, loopStarted, lastTick, nTicks,
                 resized, lastCall, oddToggles>>

NextMetronome ==
  \/ Start
  \/ Stop
  \/ Toggle
  \/ StartAfterThrow
  \/ \E f \in FailMaps("awaitStart") : ContextRuns(f)
  \/ \E f \in FailMaps("awaitStart") : ToneStartRejects(f)
  \/ Tick
  \/ \E h \in TempoRequests : setBpm(h)
  \/ \E n \in BeatRequests : setBeatsPerBar(n)
  \/ \E i \in BeatIndexes : toggleAccentForBeat(i)
  \/ \E i \in BeatIndexes, v \in VolumeRequests : setVolumeForBeat(i, v)

SpecMetronome == Init /\ [][NextMetronome]_vars

\* ------------------------------------------------------- properties: engine
\* the attack of a rendered hit: its position among the backend commands
AttackAt(cmds) ==
  CHOOSE i \in 1..Len(cmds) : cmds[i].op \in {"attack", "attackRelease"}

ReleasedBefore(cmds, voice, a) ==
  \E i \in 1..Len(cmds) :
     i < a /\ cmds[i].op = "release" /\ cmds[i].at = "now" /\ cmds[i].voice = voice

\* C4: when a hi-hat pad is rendered and the backend accepts every command,
\* each voice of another hi-hat pad that was still ringing has been released
\* before the attack of the new hit
C4_HiHatChoke ==
  (IsHiHatPad(lastRender.pad) /\ AllOk(lastRender.cmds)) =>
     \A r \in lastRender.before :
        r.pad # lastRender.pad =>
           ReleasedBefore(lastRender.cmds, r.voice, AttackAt(lastRender.cmds))

\* C5: in samples mode a pad outside the hi-hat group renders exactly one
\* command, the attack of the pad's own note at the velocity's gain, and no
\* release; this holds of the hit rendered last and of every such pad
C5_OneAttackNoRelease ==
  /\ (lastRender.mode = "samples" /\ lastRender.pad \in DrumPad \ HiHatPads) =>
        /\ Len(lastRender.cmds) = 1
        /\ lastRender.cmds[1].op = "attack"
        /\ lastRender.cmds[1].voice = padToNoteName(lastRender.pad)
        /\ lastRender.cmds[1].gain = SampleGain(lastRender.velocity)
  /\ \A pad \in DrumPad \ HiHatPads, v \in Velocities :
        RenderCmds(pad, v, FALSE, TRUE, {}) =
           << Cmd("attack", padToNoteName(pad), "now", SampleGain(v), TRUE) >>

C5_KickRendered ==
  /\ lastRender.pad = "Kick"
  /\ lastRender.velocity = 100
  /\ lastRender.mode = "samples"
  /\ lastRender.cmds = << Cmd("attack", "C2", "now", 1000, TRUE) >>

\* HiHatClosed rendered in samples mode right after HiHatOpen, both accepted
\* by the backend
ClosedAfterOpen ==
  /\ lastRender.pad = "HiHatClosed"
  /\ lastRender.mode = "samples"
  /\ AllOk(lastRender.cmds)
  /\ prevRender.pad = "HiHatOpen"
  /\ prevRender.mode = "samples"
  /\ prevRender.ok
  /\ lastRender.id = prevRender.id + 1

\* C6: when HiHatClosed follows HiHatOpen in samples mode, the first hit
\* attacked the open voice, the second releases the open voice before it
\* attacks the closed voice, and releases the open voice nowhere after that
C6_OpenThenClosed ==
  ClosedAfterOpen =>
     LET cmds == lastRender.cmds
         a == AttackAt(cmds)
     IN /\ prevRender.attacked = {"A#2"}
        /\ Attacked(cmds) = {"F#2"}
        /\ ReleasedBefore(cmds, "A#2", a)
        /\ \A i \in 1..Len(cmds) :
              (i > a) => ~(cmds[i].op = "release" /\ cmds[i].voice = "A#2")

C6_ClosedChokedOpen ==
  /\ ClosedAfterOpen
  /\ lastRender.velocity = 90
  /\ lastRender.cmds[1] = Cmd("release", "A#2", "now", 0, TRUE)

\* C7: the engine starts on samples; a failed sample load switches it to the
\* synth fallback; once on the fallback it stays there
C7_FallbackIsPermanent ==
  /\ ~useSynthFallback
  /\ [][/\ useSynthFallback => useSynthFallback'
        /\ (loaded = "pending" /\ loaded' = "failed") => useSynthFallback'
        /\ (loaded' # "failed") => ~useSynthFallback']_vars

C7_PlayedOnFallback ==
  /\ useSynthFallback
  /\ loaded = "failed"
  /\ lastRender.mode = "synth"
  /\ prevRender.mode = "synth"

\* C8: at most one unlock request (Tone.start) is pending at any time
C8_UnlockCoalesced ==
  Cardinality({i \in 1..Len(calls) : calls[i].pc = "awaitStart"}) <= 1

\* C9: no rendered hit lets a backend failure escape from triggerPad
C9_NoExceptionEscapes == ~lastRender.threw

\* ----------------------------------------------------- properties: bindings
Shares(a, b) == \E i \in 1..Len(a) : includes(b, a[i])

\* C1: no two different targets of the table hold the same key, the same
\* extra note or the same controller
C1_BindingUniqueness ==
  \A m1, m2 \in DOMAIN bindings :
     m1 # m2 =>
        /\ ~Shares(bindings[m1].keys, bindings[m2].keys)
        /\ ~Shares(bindings[m1].midis, bindings[m2].midis)
        /\ ~Shares(bindings[m1].ccs, bindings[m2].ccs)

\* both targets hold values of every kind between them, after a refused key
C1_TableInUse ==
  /\ DOMAIN bindings = {36, 42}
  /\ bindings[36].keys = << "a" >>
  /\ bindings[36].ccs = << 20 >>
  /\ bindings[42].midis = << 60 >>
  /\ conflictKey = {"a"}

\* C2: a note capture for target t that receives the default note of another
\* pad leaves the table and the stored record as they were, reports a conflict
\* that names that pad, ends the capture, and t does not hold the note
C2_DefaultNoteRefused ==
  [][\A t \in Targets, n \in NoteNumbers, v \in NoteVelocities, f \in NoFailure :
        (/\ listenMidiForMidi = {t}
         /\ v > 0
         /\ n \in DefaultMidiSet /\ n # t
         /\ NoteOn(n, v, f))
        => /\ bindings' = bindings
           /\ stored' = stored
           /\ conflictMidi' = {[note |-> n, ownerLabel |-> PAD_LABELS[midiNoteToPad(n)]]}
           /\ listenMidiForMidi' = {}
           /\ \A m \in DOMAIN bindings' :
                 \A i \in 1..Len(bindings'[m].midis) :
                    bindings'[m].midis[i] \notin DefaultMidiSet]_vars

C2_KickNoteRefused ==
  /\ modalForMidi = {42}
  /\ conflictMidi = {[note |-> 36, ownerLabel |-> "Kick"]}
  /\ listenMidiForMidi = {}
  /\ ~includes(normalizeBinding(bindings, 42).midis, 36)

\* the other targets that hold x in the table
HeldElsewhere(t, field, x) ==
  {m \in DOMAIN bindings : m # t /\ includes(bindings[m][field], x)}

\* this step writes neither the table nor the stored record
NothingWritten == bindings' = bindings /\ stored' = stored

\* C3: in every capture kind, a captured value that another target holds
\* leaves the table and the stored record unchanged, is reported as a
\* conflict, and ends the capture of that kind
C3_ConflictChangesNothing ==
  [][/\ \A t \in Targets, k \in KeyNames :
           (listenKeyForMidi = {t} /\ KeyDown(k)) =>
              \A m \in HeldElsewhere(t, "keys", ToLowerCase(k)) :
                 /\ NothingWritten
                 /\ conflictKey' = {ToLowerCase(k)}
                 /\ listenKeyForMidi' = {}
     /\ \A t \in Targets, n \in NoteNumbers, v \in NoteVelocities, f \in NoFailure :
           (listenMidiForMidi = {t} /\ v > 0 /\ NoteOn(n, v, f)) =>
              \A m \in HeldElsewhere(t, "midis", n) :
                 /\ NothingWritten
                 /\ conflictMidi' = {[note |-> n, ownerLabel |-> midiToLabel(m)]}
                 /\ listenMidiForMidi' = {}
     /\ \A t \in Targets, cc \in CcNumbers, v \in CcValues, f \in NoFailure :
           (listenCcForMidi = {t} /\ v > 0 /\ CcEvent(cc, v, f)) =>
              \A m \in HeldElsewhere(t, "ccs", cc) :
                 /\ NothingWritten
                 /\ conflictCc' = {[cc |-> cc, ownerLabel |-> midiToLabel(m)]}
                 /\ listenCcForMidi' = {}]_vars

C3_ControllerRefused ==
  /\ modalForMidi = {42}
  /\ conflictCc = {[cc |-> 20, ownerLabel |-> "Kick"]}
  /\ listenCcForMidi = {}
  /\ 36 \in DOMAIN bindings
  /\ bindings[36].ccs = << 20 >>
  /\ ~includes(normalizeBinding(bindings, 42).ccs, 20)
  /\ stored = {JSONStringify(bindings)}

C12_TickNumbering ==
  /\ []((nTicks > 0 /\ ~resized) =>
          /\ lastTick.beatInBar = (nTicks - 1) % beatsPerBar
          /\ lastTick.barIndex = ((nTicks - 1) \div beatsPerBar) + 1)
  /\ [][(nTicks' = nTicks + 1) =>
          /\ lastTick'.barIndex = currentBar'
          /\ currentBar' = IF lastTick'.beatInBar = 0 THEN currentBar + 1
                                                     ELSE currentBar]_vars

\* eight ticks of a four-beat bar: the eighth is beat 3 of bar 2
C12_EightTicks ==
  /\ nTicks = 8 /\ ~resized /\ beatsPerBar = 4
  /\ lastTick.beatInBar = 3 /\ lastTick.barIndex = 2

\* C13: setBeatsPerBar keeps every accent and volume below the new length and
\* gives every new index accent false and volume 1, from every reachable
\* pair of arrays.
C13_ResizePreserves ==
  [][\A n \in BeatRequests :
       setBeatsPerBar(n) =>
         /\ Len(accents') = beatsPerBar'
         /\ Len(volumes') = beatsPerBar'
         /\ \A i \in 1..beatsPerBar' :
              /\ accents'[i] = IF i <= Len(accents) THEN accents[i] ELSE FALSE
              /\ volumes'[i] = IF i <= Len(volumes) THEN volumes[i] ELSE 10]_vars

\* grown to twelve beats: the edited third beat kept, the last beat default
C13_GrownWithEdits ==
  /\ resized /\ beatsPerBar = 12
  /\ accents[3] /\ volumes[3] = 3
  /\ ~accents[12] /\ volumes[12] = 10

\* C14 as stated: below 30 stores 30, above 300 stores 300, a tempo in
\* [30,300] is stored as given.
C14_TempoStoredAsGiven ==
  [][\A h \in TempoRequests :
       setBpm(h) => 2 * bpm' = (IF h < 60 THEN 60 ELSE IF h > 600 THEN 600 ELSE h)]_vars

\* C14: below 30 stores 30, above 300 stores 300, a tempo in [30,300] is
\* stored rounded to the nearest integer (as given when it is an integer).
C14_TempoClampedRounded ==
  [][\A h \in TempoRequests :
       setBpm(h) =>
         /\ h < 60 => bpm' = 30
         /\ h > 600 => bpm' = 300
         /\ (h >= 60 /\ h <= 600) => 2 * bpm' - h \in {0, 1}]_vars

\* 120.5 was requested
C14_HalfRounded == bpm = 121

C16_NoStartWithoutUnlock ==
  [][(ctxState' # "running") =>
       /\ isRunning' => isRunning
       /\ loopStarted' => loopStarted]_vars

\* C17: stop() halts the ticks and leaves counters, tempo, beats-per-bar,
\* accents and volumes alone; while stopped no tick is made and the counters
\* change only in a step in which start() runs.
C17_StopKeepsState ==
  /\ [][(Stop \/ (Toggle /\ isRunning)) =>
          /\ ~isRunning' /\ ~loopStarted'
          /\ UNCHANGED <<currentBeat, currentBar, bpm, beatsPerBar, accents,
                         volumes>>]_vars
  /\ [][~loopStarted =>
          /\ lastTick' = lastTick
          /\ (currentBeat' # currentBeat \/ currentBar' # currentBar) =>
               (isRunning' /\ currentBeat' = 0 /\ currentBar' = 0)]_vars

\* stopped after three ticks
C17_StoppedMidBar ==
  /\ initialized /\ ~isRunning /\ ~loopStarted
  /\ currentBeat = 3 /\ currentBar = 1 /\ nTicks = 3

\* ---------------------------------------------- binding resolver: properties
ExtraOwners(n) == {m \in DOMAIN bindings : includes(bindings[m].midis, n)}

\* the step makes one triggerPad call, rendered at once, for this pad
Played(pad) ==
  /\ nCalls' = nCalls + 1
  /\ lastRender'.id = nCalls'
  /\ lastRender'.pad = pad

C18_CancelTakesEffect ==
  [][(/\ modalForMidi = {}
      /\ \/ \E k \in KeyNames : KeyDown(k)
         \/ \E n \in NoteNumbers, v \in NoteVelocities : NoteOn(n, v, {})
         \/ \E cc \in CaptureCcs, v \in CaptureValues : CcEvent(cc, v, {}))
       => /\ NothingWritten
          /\ UNCHANGED <<conflictKey, conflictMidi, conflictCc>>]_vars

\* target t loses x from one of its three lists and nothing else changes
RemovedExactly(t, field, x) ==
  /\ DOMAIN bindings' = DOMAIN bindings
  /\ ~includes(bindings'[t][field], x)
  /\ bindings'[t][field] = SelectSeq(bindings[t][field], LAMBDA y : y # x)
  /\ \A g \in {"keys", "midis", "ccs"} \ {field} : bindings'[t][g] = bindings[t][g]
  /\ \A m \in DOMAIN bindings \ {t} : bindings'[m] = bindings[m]
  /\ stored' = {JSONStringify(bindings')}

\* C19: a removal takes exactly the value out of the list of that kind of the
\* modal's target, leaves the other lists and the other targets alone, and
\* the stored record is the resulting table right after it.
C19_RemoveExact ==
  [][\A t \in Targets :
       /\ \A k \in StoredKeys :
            (modalForMidi = {t} /\ RemoveKey(k)) => RemovedExactly(t, "keys", k)
       /\ \A n \in StoredNotes :
            (modalForMidi = {t} /\ RemoveMidi(n)) => RemovedExactly(t, "midis", n)
       /\ \A cc \in StoredCcs :
            (modalForMidi = {t} /\ RemoveCc(cc)) => RemovedExactly(t, "ccs", cc)]_vars

\* one key, one note and one controller of Kick removed, the others kept
C19_OneOfEachRemoved ==
  /\ bindings = SetEntry(StoredTable, 36,
                         [keys |-> <<"d">>, midis |-> <<61>>, ccs |-> <<20>>])
  /\ stored = {JSONStringify(bindings)}

\* C20: a reset leaves the table without any entry and stores the empty
\* table, whatever the table was.
C20_ResetEmpties ==
  [][ResetAll =>
       /\ bindings' = EmptyTable
       /\ \A m \in Targets : normalizeBinding(bindings', m) = EmptyBinding
       /\ stored' = {JSONStringify(EmptyTable)}]_vars

\* the table and the record after a reset
C20_AfterReset ==
  /\ bindings = EmptyTable
  /\ stored = {JSONStringify(EmptyTable)}

C23_PrepareStep ==
  /\ prepareReturned'.value = "false" => prepareReturned'.ctx # "running"
  /\ (loading /\ ~loading' /\ ctxState' = "running") =>
        /\ prepareReturned' = [value |-> "true", ctx |-> "running"]
        /\ audioReady'
        /\ error' = "null"
        /\ loaded' \in {"ready", "failed"}
        /\ engine' = (IF loaded' = "failed" THEN "synth" ELSE "samples")
  /\ audioReady =>
        /\ prepareReturned' = [value |-> "true", ctx |-> "running"]
        /\ UNCHANGED <<audioReady, engine, error, loading, loaded, useSynthFallback,
                       sampler, ctxState>>
C23_FailedLocked ==
  /\ prepareReturned = [value |-> "false", ctx |-> "suspended"]
  /\ error = "locked"
  /\ ~audioReady

\* C24: a note capture for target t that receives the note number t itself
\* writes nothing, leaves the conflict report as it was and ends the capture;
\* and after every step no target holds its own number among its extra notes.
C24_OwnDefaultIgnored ==
  [][/\ \A t \in Targets, v \in NoteVelocities, f \in NoFailure :
          (listenMidiForMidi = {t} /\ v > 0 /\ NoteOn(t, v, f))
          => /\ bindings' = bindings
             /\ stored' = stored
             /\ conflictMidi' = conflictMidi
             /\ listenMidiForMidi' = {}
     /\ \A t \in DOMAIN bindings' : ~includes(bindings'[t].midis, t)]_vars

\* a note capture for Kick is pending on the selected input, with another
\* note already bound to Kick: the next message may be Kick's own number
C24_KickCapturePending ==
  /\ selectedId # {}
  /\ modalForMidi = {36}
  /\ listenMidiForMidi = {36}
  /\ conflictMidi = {}
  /\ 36 \in DOMAIN bindings
  /\ bindings[36].midis = <<60>>

\* C25: the load promise is created at most once: it is created only when
\* there is none, it is never dropped, and once settled it keeps its outcome;
\* every caller that waits for it waits for that one promise, and every hit
\* rendered and the engine indicator agree with its outcome.
C25_OneLoad ==
  [][/\ (loaded' = "pending" /\ loaded # "pending") => (loaded = "null" /\ sampler')
     /\ loaded # "null" => loaded' # "null"
     /\ loaded \in {"ready", "failed"} => loaded' = loaded
     /\ (\E i \in 1..Len(calls') : calls'[i].pc = "awaitLoad") => loaded' = "pending"
     /\ lastRender' # lastRender =>
           /\ loaded' \in {"ready", "failed"}
           /\ lastRender'.mode = (IF loaded' = "failed" THEN "synth" ELSE "samples")
     /\ audioReady' =>
           /\ loaded' \in {"ready", "failed"}
           /\ engine' = (IF loaded' = "failed" THEN "synth" ELSE "samples")]_vars

\* two triggerPad calls wait for the one pending load
C25_TwoCallersOneLoad ==
  /\ loaded = "pending"
  /\ Len(calls) = 2
  /\ calls[1].pc = "awaitLoad" /\ calls[1].kind = "triggerPad"
  /\ calls[2].pc = "awaitLoad" /\ calls[2].kind = "triggerPad"

\* ... and both were rendered on the samples after it settled
C25_BothOnSamples ==
  /\ loaded = "ready"
  /\ lastRender.id = 2 /\ lastRender.mode = "samples"
  /\ prevRender.mode = "samples"
  /\ calls = << >>

C27_ClickOfTick ==
  [][Tick =>
       LET b == currentBeat % beatsPerBar
           v == Max(0, Min(10, volumes[b + 1]))
       IN /\ lastTick'.click = (IF accents[b + 1] THEN "high" ELSE "low")
          /\ lastTick'.gain = (IF accents[b + 1] THEN 9 * v ELSE 6 * v)
          /\ 9 * v >= 6 * v
          /\ nTicks' = nTicks + 1]_vars

\* the third beat, accented and turned down to 0.3, was played as a hard click
C27_HardClickTurnedDown ==
  /\ lastTick.click = "high"
  /\ lastTick.beatInBar = 2
  /\ lastTick.gain = 27
  /\ nTicks >= 3

\* a beat without accent at 0.3 was played as a soft click
C27_SoftClickTurnedDown ==
  /\ lastTick.click = "low"
  /\ lastTick.gain = 18

\* C28: a capture consumes one message: of two note messages that follow a
\* pending note capture, once the first has committed a binding or reported a
\* conflict, the second adds no binding, writes no record and reports no
\* conflict.
C28_OneShot ==
  [][\A n1, n2 \in BurstNotes :
        LET t == CHOOSE m \in listenMidiForMidi : TRUE
            first == CaptureNote(CaptureState, bindings, t, n1)
        IN (NoteBurst(n1, n2) /\ first # CaptureState)
           => /\ bindings' = first.bindings
              /\ stored' = first.stored
              /\ conflictMidi' = first.conflictMidi]_vars

\* C29: when a key capture for target B was started while the listener of a
\* capture for another target A was still armed, the next key is handled by
\* B's capture alone: the table, the stored record and the conflict report
\* are what B's capture makes of the key, and A's entry is as it was.
C29_LatestCaptureOnly ==
  [][\A k \in KeyNames :
        (/\ KeyDown(k)
         /\ listenKeyForMidi # {}
         /\ \E i \in 1..Len(keyListeners) : keyListeners[i].target \notin listenKeyForMidi)
        => LET alone == RunOnce([bindings |-> bindings, stored |-> stored,
                                 conflictKey |-> conflictKey],
                                keyListeners[Len(keyListeners)], ToLowerCase(k))
           IN /\ bindings' = alone.bindings
              /\ stored' = alone.stored
              /\ conflictKey' = alone.conflictKey
              /\ \A a \in Targets \ listenKeyForMidi :
                    normalizeBinding(bindings', a) = normalizeBinding(bindings, a)]_vars

\* C30: starting a capture of one kind leaves a pending capture of each other
\* kind listening for the target it was started for.
C30_KindsIndependent ==
  [][/\ StartKeyCapture =>
          /\ listenMidiForMidi # {} => listenMidiForMidi' = listenMidiForMidi
          /\ listenCcForMidi # {} => listenCcForMidi' = listenCcForMidi
     /\ StartMidiCapture =>
          /\ listenKeyForMidi # {} => listenKeyForMidi' = listenKeyForMidi
          /\ listenCcForMidi # {} => listenCcForMidi' = listenCcForMidi
     /\ StartCcCapture =>
          /\ listenKeyForMidi # {} => listenKeyForMidi' = listenKeyForMidi
          /\ listenMidiForMidi # {} => listenMidiForMidi' = listenMidiForMidi]_vars

\* C31: every step that changes the table or writes the record leaves a record
\* that reads back as the table now in use: capture commits of the three
\* kinds, removals and the reset write the table they commit.
C31_RecordFollowsTable ==
  [][(bindings' # bindings \/ stored' # stored)
       => /\ stored' # {}
          /\ LoadBindings(stored') = bindings'
          /\ Len(CHOOSE x \in stored' : TRUE) = Cardinality(DOMAIN bindings')]_vars

\* a key was removed from Kick, leaving its entry empty, while HH Close holds a
\* captured note and a captured controller: the record is that table
C31_AfterCommitsAndRemoval ==
  /\ 36 \in DOMAIN bindings /\ bindings[36] = EmptyBinding
  /\ 42 \in DOMAIN bindings
  /\ bindings[42].midis = <<60>>
  /\ bindings[42].ccs = <<20>>
  /\ stored # {}
  /\ LoadBindings(stored) = bindings

\* C32: a load that finds no current record and a legacy key map starts from
\* the key lists of that map, each wrapped with empty notes and controllers; a
\* load that finds a current record starts from that record; and over all the
\* loads of a behaviour the migration is taken at most once.
C32_MigratesOnce ==
  /\ [][Reload =>
          /\ (stored = {} /\ legacyStored = {LegacyRecord}) => bindings' = LegacyTable
          /\ (stored # {} /\ ~JSONParseThrows(CHOOSE x \in stored : TRUE))
                => (bindings' = LoadBindings(stored) /\ migrations' = migrations)]_vars
  /\ [](migrations <= 1)

\* C33: a call of setHiHatOpenByCC4(value) stores value / 127 clamped to 0..1
\* as the openness level and changes nothing else: no hit is rendered, no
\* voice starts or stops ringing, no release is scheduled, and the engine
\* mode, the sampler and the load are as they were.
C33_OpennessOnly ==
  [][\A v \in OpenValues :
        CallSetHiHatOpen(v)
        => /\ hiHatOpenLevel' = (IF v < 0 THEN 0 ELSE IF v > 127 THEN 127 ELSE v)
           /\ UNCHANGED <<lastRender, prevRender, ringing, scheduled, nCalls, calls,
                          useSynthFallback, synthBus, sampler, loaded, ctxState>>]_vars

\* the openness was set to 64/127 while an open hi-hat rendered on the samples
\* was still ringing
C33_SetWhileRinging ==
  /\ hiHatOpenLevel = 64
  /\ lastRender.pad = "HiHatOpen"
  /\ lastRender.mode = "samples"
  /\ ringing # {}

\* values outside 0..127 were clamped
C33_ClampedHigh == hiHatOpenLevel = 127 /\ lastRender.mode = "synth"

C34_TwoWaitForUnlock ==
  /\ Len(calls) = 2
  /\ calls[1].pc = "awaitStart" /\ calls[1].pad = "HiHatOpen" /\ calls[1].id = 1
  /\ calls[2].pc = "awaitStart" /\ calls[2].pad = "HiHatClosed" /\ calls[2].id = 2

BindingKinds == {"keys", "midis", "ccs"}

\* every value bound in table a is bound to the same target in table b
KeepsAll(a, b) ==
  \A t \in DOMAIN a : \A f \in BindingKinds : \A i \in 1..Len(a[t][f]) :
     includes(normalizeBinding(b, t)[f], a[t][f][i])

\* a step of removeBinding or of resetAll
RemovalStep ==
  \/ ResetAll
  \/ \E k \in KeyNames : RemoveKey(k)
  \/ \E n \in NoteNumbers : RemoveMidi(n)
  \/ \E cc \in CaptureCcs : RemoveCc(cc)

\* C35: no step other than removeBinding and resetAll takes a bound value out
\* of the table or out of the persisted record.
C35_NoBindingLost ==
  [][~RemovalStep =>
       /\ KeepsAll(bindings, bindings')
       /\ stored' # stored => KeepsAll(bindings, LoadBindings(stored'))]_vars

\* the number of values bound to the targets S of a table
RECURSIVE BoundIn(_, _)
BoundIn(tbl, S) ==
  IF S = {} THEN 0
  ELSE LET t == CHOOSE y \in S : TRUE
       IN Len(tbl[t].keys) + Len(tbl[t].midis) + Len(tbl[t].ccs)
            + BoundIn(tbl, S \ {t})

BoundValues(tbl) == BoundIn(tbl, DOMAIN tbl)

\* C36: once the table is empty (after resetAll) it and the persisted record
\* stay empty until a capture commits its value: the step that ends the
\* emptiness leaves exactly the one committed value in the table and in the
\* record, and brings back nothing that was bound before the reset.
C36_EmptyUntilNewCommit ==
  [][(bindings = EmptyTable /\ bindings' # EmptyTable) =>
       /\ BoundValues(bindings') = 1
       /\ stored' # {} /\ BoundValues(LoadBindings(stored')) = 1]_vars

\* setAccentForBeat(beatIndex, v)
setAccentForBeat(beatIndex, v) ==
  /\ accents' = [accents EXCEPT ![BeatIdx(beatsPerBar, beatIndex) + 1] = v]
  /\ UNCHANGED <<pianoVars, barVars, audioVars, bindVars, initialized, beatsPerBar, bpm, isRunning,
                 currentBeat, currentBar, volumes, loopStarted, lastTick, nTicks,
                 resized, lastCall, oddToggles>>

\* setAccents(values)
setAccents(values) ==
  /\ accents' = [i \in 1..beatsPerBar |->
                   IF i <= Min(Len(values), beatsPerBar) THEN values[i] ELSE FALSE]
  /\ UNCHANGED <<pianoVars, barVars, audioVars, bindVars, initialized, beatsPerBar, bpm, isRunning,
                 currentBeat, currentBar, volumes, loopStarted, lastTick, nTicks,
                 resized, lastCall, oddToggles>>

\* setVolumes(values)
setVolumes(values) ==
  /\ volumes' = [i \in 1..beatsPerBar |->
                   IF i <= Min(Len(values), beatsPerBar)
                     THEN Clamp(0, 10, values[i]) ELSE 10]
  /\ UNCHANGED <<pianoVars, barVars, audioVars, bindVars, initialized, beatsPerBar, bpm, isRunning,
                 currentBeat, currentBar, accents, loopStarted, lastTick, nTicks,
                 resized, lastCall, oddToggles>>

\* integer arguments: tempos in halves of a bpm, volumes in tenths
IntegerTempos == {2 * 20, 2 * 120, 2 * 301}
IntegerBeats == {0, 3, 13}
IntegerIndexes == {0 - 1, 1, 20}
IntegerVolumes == {0 - 10, 0, 10, 20}
AccentLists == {<< >>, <<FALSE, TRUE>>, Fill(13, TRUE)}
VolumeLists == {<< >>, <<20, 0 - 10>>, Fill(13, 0)}

NextMutators ==
  \/ \E h \in IntegerTempos : setBpm(h)
  \/ \E n \in IntegerBeats : setBeatsPerBar(n)
  \/ \E a \in AccentLists : setAccents(a)
  \/ \E vs \in VolumeLists : setVolumes(vs)
  \/ \E i \in IntegerIndexes, v \in BOOLEAN : setAccentForBeat(i, v)
  \/ \E i \in IntegerIndexes : toggleAccentForBeat(i)
  \/ \E i \in IntegerIndexes, v \in IntegerVolumes : setVolumeForBeat(i, v)

SpecMutators == InitLocked /\ [][NextMutators]_vars

\* the entry of the bar an index stands for: the first for an index below
\* the bar, the last for an index beyond it
EntryOf(i) == IF i < 0 THEN 1 ELSE IF i >= beatsPerBar THEN beatsPerBar ELSE i + 1

OnlyEntry(old, new, e, x) ==
  /\ Len(new) = Len(old)
  /\ new[e] = x
  /\ \A j \in 1..Len(old) : j # e => new[j] = old[j]

\* C37: whatever mutators were called with integer arguments, the tempo is
\* within 30..300, the bar has 1..12 beats, the accents and the volumes have
\* one entry per beat, every volume is within 0..1, and a per-beat mutator
\* writes the entry of the clamped index and no other.
C37_MetronomeState ==
  /\ [](/\ bpm \in 30..300
        /\ beatsPerBar \in 1..12
        /\ Len(accents) = beatsPerBar
        /\ Len(volumes) = beatsPerBar
        /\ \A i \in 1..Len(volumes) : volumes[i] \in 0..10
        /\ \A i \in 1..Len(accents) : accents[i] \in BOOLEAN)
  /\ [][\A i \in IntegerIndexes :
          /\ toggleAccentForBeat(i) =>
               OnlyEntry(accents, accents', EntryOf(i), ~accents[EntryOf(i)])
          /\ \A v \in BOOLEAN : setAccentForBeat(i, v) =>
               OnlyEntry(accents, accents', EntryOf(i), v)
          /\ \A v \in IntegerVolumes : setVolumeForBeat(i, v) =>
               OnlyEntry(volumes, volumes', EntryOf(i), Clamp(0, 10, v))]_vars

\* a twelve-beat bar whose last beat was written through index 20 and whose
\* first beat was silenced through index -1, at the lowest tempo
C37_EndsWritten ==
  /\ beatsPerBar = 12 /\ bpm = 30
  /\ accents[12] /\ ~accents[11]
  /\ volumes[1] = 0 /\ volumes[2] = 10 /\ volumes[12] = 0

\* the Play/Stop button, the unlock succeeding, and the ticks
NextToggle ==
  \/ Toggle
  \/ \E f \in FailMaps("awaitStart") : ContextRuns(f)
  \/ Tick
  \/ \E n \in BeatRequests : setBeatsPerBar(n)

SpecToggle == InitLocked /\ [][NextToggle]_vars

MaxPresses == 2
\* semitones the page is transposed by, either way
MaxTranspose == 1

\* a note name: a pitch class 0..11 (C, C#, ... B) and an octave
Note(pitch, octave) == [pitch |-> pitch, octave |-> octave]

\* keyDefs: 'a' is Do of the middle row (C4), 's' is Re (D4), 'q' is Do of the
\* high row (C5)
PianoKeys == {"a", "s", "q"}
baseNote(phys) ==
  CASE phys = "a" -> Note(0, 4)
    [] phys = "s" -> Note(2, 4)
    [] phys = "q" -> Note(0, 5)

\* transposeNoteName(note, semitones)
transposeNoteName(note, semitones) ==
  Note((note.pitch + semitones) % 12, note.octave + ((note.pitch + semitones) \div 12))

Attacks(S, note) == IF note \in DOMAIN S THEN S[note] ELSE 0

\* engine.noteOn(note): one more voice of the synth attacks the note
noteOn(S, note) ==
  [n \in DOMAIN S \cup {note} |-> IF n = note THEN Attacks(S, note) + 1 ELSE S[n]]

\* engine.noteOff(note): one voice playing the note is released, if there is one
noteOff(S, note) ==
  IF Attacks(S, note) <= 1 THEN [n \in DOMAIN S \ {note} |-> S[n]]
  ELSE [S EXCEPT ![note] = @ - 1]

\* what one page handler leaves behind
Page == [audioEnabled |-> audioEnabled, pressed |-> pressed,
         activeNotes |-> activeNotes, startInFlight |-> startInFlight,
         started |-> started, presses |-> presses, sounding |-> sounding]

SetPage(P) ==
  /\ audioEnabled' = P.audioEnabled
  /\ pressed' = P.pressed
  /\ activeNotes' = P.activeNotes
  /\ startInFlight' = P.startInFlight
  /\ started' = P.started
  /\ presses' = P.presses
  /\ sounding' = P.sounding

\* press(kd) after `await ensureAudioStarted()` returned true: the note is
\* named with the transpose of the render the call was made in
AfterStart(P, c) ==
  LET note == transposeNoteName(baseNote(c.phys), c.transpose)
  IN [P EXCEPT !.audioEnabled = TRUE, !.startInFlight = FALSE,
               !.activeNotes = [k \in DOMAIN @ \cup {c.phys} |->
                                  IF k = c.phys THEN note ELSE @[k]],
               !.sounding = noteOn(@, note),
               !.pressed = @ \cup {c.phys}]

\* press(kd)
press(P, phys, t) ==
  IF phys \in P.pressed THEN P
  ELSE IF P.audioEnabled \/ P.started
         THEN AfterStart(P, [phys |-> phys, transpose |-> t])
         ELSE [P EXCEPT !.startInFlight = TRUE,
                        !.presses = Append(@, [phys |-> phys, transpose |-> t])]

\* release(kd)
release(P, phys, t) ==
  IF phys \notin P.pressed THEN P
  ELSE LET note == IF phys \in DOMAIN P.activeNotes THEN P.activeNotes[phys]
                   ELSE transposeNoteName(baseNote(phys), t)
       IN [P EXCEPT !.activeNotes = [k \in DOMAIN @ \ {phys} |-> @[k]],
                    !.sounding = noteOff(@, note),
                    !.pressed = @ \ {phys}]

RECURSIVE ReleaseEach(_, _, _)
ReleaseEach(S, active, keys) ==
  IF keys = {} THEN S
  ELSE LET k == CHOOSE x \in keys : TRUE
       IN ReleaseEach(noteOff(S, active[k]), active, keys \ {k})

\* releaseAll()
releaseAll(P) ==
  [P EXCEPT !.sounding = ReleaseEach(@, P.activeNotes, DOMAIN P.activeNotes),
            !.activeNotes = EmptyMap,
            !.pressed = {}]

RECURSIVE ResumePresses(_, _)
ResumePresses(P, cs) ==
  IF cs = << >> THEN P ELSE ResumePresses(AfterStart(P, Head(cs)), Tail(cs))

pianoOnly == UNCHANGED <<audioVars, bindVars, metroVars, barVars>>

\* keydown of a piano key that is not held (a held key only repeats)
PianoKeyDown(phys) ==
  /\ phys \notin keysDown
  /\ Len(presses) < MaxPresses
  /\ keysDown' = keysDown \cup {phys}
  /\ SetPage(press(Page, phys, transpose))
  /\ UNCHANGED transpose
  /\ pianoOnly

\* keyup of a held piano key
PianoKeyUp(phys) ==
  /\ phys \in keysDown
  /\ keysDown' = keysDown \ {phys}
  /\ SetPage(release(Page, phys, transpose))
  /\ UNCHANGED transpose
  /\ pianoOnly

\* an arrow key: releaseAll(), then the transpose moves by one semitone
TransposeBy(d) ==
  /\ transpose + d \in (0 - MaxTranspose)..MaxTranspose
  /\ transpose' = transpose + d
  /\ SetPage(releaseAll(Page))
  /\ UNCHANGED keysDown
  /\ pianoOnly

\* the window loses the focus: releaseAll()
PianoBlur ==
  /\ SetPage(releaseAll(Page))
  /\ UNCHANGED <<transpose, keysDown>>
  /\ pianoOnly

\* the promise of engine.start() resolves: the waiting presses go on in the
\* order of their calls
PianoStartResolves ==
  /\ startInFlight
  /\ SetPage(ResumePresses([Page EXCEPT !.started = TRUE, !.presses = << >>], presses))
  /\ UNCHANGED <<transpose, keysDown>>
  /\ pianoOnly

\* the promise rejects: the waiting presses return without a note
PianoStartRejects ==
  /\ startInFlight
  /\ SetPage([Page EXCEPT !.startInFlight = FALSE, !.presses = << >>])
  /\ UNCHANGED <<transpose, keysDown>>
  /\ pianoOnly

NextPiano ==
  \/ \E k \in PianoKeys : PianoKeyDown(k)
  \/ \E k \in PianoKeys : PianoKeyUp(k)
  \/ \E d \in {0 - 1, 1} : TransposeBy(d)
  \/ PianoBlur
  \/ PianoStartResolves
  \/ PianoStartRejects

SpecPiano == InitLocked /\ [][NextPiano]_vars

\* C39: once every key is up and no press is waiting for the audio start,
\* every note that was started has been released: nothing is sounding.
C39_NoStuckNote ==
  (keysDown = {} /\ presses = << >>) => sounding = EmptyMap

\* ------------------------------------------------------------------ volume bar
\* the bar of the first beat; levels are tenths, as the volumes are
BarBeat == 0
BarLevels == {0, 2, 4, 6, 8, 10}

\* onChange(v) of the bar (Metronome.tsx): M.setVolumeForBeat(i, v)
onChange(v) ==
  /\ volumes' = [volumes EXCEPT ![BeatIdx(beatsPerBar, BarBeat) + 1] = Clamp(0, 10, v)]
  /\ lastChange' = {v}
  /\ UNCHANGED <<initialized, beatsPerBar, bpm, isRunning, currentBeat, currentBar,
                 accents, loopStarted, lastTick, nTicks, resized, lastCall, oddToggles>>

noChange ==
  UNCHANGED <<metroVars, lastChange>>

barOnly == UNCHANGED <<audioVars, bindVars, pianoVars>>

\* onPointerDown at level v: scheduleCommit(v) replaces the pending timer
BarPointerDown(v) ==
  /\ dragging' = TRUE
  /\ debounceTimer' = {v}
  /\ atRelease' = {}
  /\ noChange
  /\ barOnly

\* onPointerMove at level v during a drag
BarPointerMove(v) ==
  /\ dragging
  /\ debounceTimer' = {v}
  /\ UNCHANGED <<dragging, atRelease>>
  /\ noChange
  /\ barOnly

\* onPointerUp at level v during a drag: the immediate commit
BarPointerUp(v) ==
  /\ dragging
  /\ dragging' = FALSE
  /\ atRelease' = {v}
  /\ onChange(v)
  /\ UNCHANGED debounceTimer
  /\ barOnly

\* onPointerCancel
BarPointerCancel ==
  /\ dragging
  /\ dragging' = FALSE
  /\ UNCHANGED <<debounceTimer, atRelease>>
  /\ noChange
  /\ barOnly

\* the debounce timer fires, DEBOUNCE_MS after it was set
BarTimerFires ==
  /\ debounceTimer # {}
  /\ onChange(CHOOSE v \in debounceTimer : TRUE)
  /\ debounceTimer' = {}
  /\ UNCHANGED <<dragging, atRelease>>
  /\ barOnly

NextBar ==
  \/ \E v \in BarLevels : BarPointerDown(v)
  \/ \E v \in BarLevels : BarPointerMove(v)
  \/ \E v \in BarLevels : BarPointerUp(v)
  \/ BarPointerCancel
  \/ BarTimerFires

SpecBar == InitLocked /\ [][NextBar]_vars

\* C40: from the pointer-up that ends a drag until the next drag begins, the
\* latest value delivered to onChange is the value at the release.
C40_ReleaseIsLast ==
  atRelease # {} => lastChange = atRelease
====
